---------------------------- MODULE Spec2Model ----------------------------
(***************************************************************************)
(* A model of the jobpilot backend's AI-provider abstraction and of the    *)
(* workflows that consume it:                                              *)
(*   app/services/ai/openai_client.py   OpenAICompatibleClient             *)
(*   app/dependencies/ai_client.py      _ai_client / get_ai_client         *)
(*   app/services/resume/service.py     ResumeService                      *)
(*   app/services/analytics/service.py  RejectionInsightsService           *)
(* and of the auth routes:                                                 *)
(*   app/services/auth/{router,service,repository,security}.py             *)
(*   app/dependencies/dependency.py     get_current_user                   *)
(*   app/exceptions/exceptions.py       JobPathException and subclasses    *)
(* and of the services behind the CRUD routes:                             *)
(*   app/services/job_application/{service,repository}.py                  *)
(*   app/services/notifications/service.py, app/services/user/*.py         *)
(*   app/services/wellbeing/service.py                                     *)
(*                                                                         *)
(* Python values are modelled as follows.  A str is a TLA+ string, None is *)
(* the reserved string None (no str of the model's domains equals it), a   *)
(* dict is a function whose DOMAIN is the set of keys that are present, a  *)
(* list is a sequence.  Opaque mappings (metadata, usage) and floats are   *)
(* strings that are only ever passed along.                                *)
(*                                                                         *)
(* The process is one asyncio event loop: a request handler runs without   *)
(* interruption between two awaits.  The only await of the AI core is the  *)
(* HTTP round trip of chat_completion, so every handler is two steps: the  *)
(* code up to the POST, and the code from the provider's answer on.  A     *)
(* handler of the CRUD routes is split at the database round trips between *)
(* which another handler's statements can take effect.                     *)
(***************************************************************************)
EXTENDS Integers, Sequences, FiniteSets, TLC

(***************************************************************************)
(* Bounds of the model.                                                    *)
(***************************************************************************)
\* number of request handlers (asyncio tasks) that may be in flight together
NumTasks == 2
\* longest choices list a provider response of the model carries
MaxChoices == 2

Tasks == 1..NumTasks
\* minutes the clock advances in one step, and the last minute of the model
ClockStep == 31
MaxClock == 31
\* requests the CRUD routes accept, one per reading of the clock, and rows
\* they create
MaxStamp == 2
MaxCreated == 1

(***************************************************************************)
(* Python helpers.                                                         *)
(***************************************************************************)
None == "None"

\* truth value of a `str | None`
Truthy(v) == v # None /\ v # ""

\* `a or b` on `str | None`
Or(a, b) == IF Truthy(a) THEN a ELSE b

\* dict.get(key, default)
Get(d, key, default) == IF key \in DOMAIN d THEN d[key] ELSE default

\* os.getenv(name, default): the default is used only when the name is unset
getenv(environ, name, default) == Get(environ, name, default)

RECURSIVE rstrip(_, _)
\* str.rstrip(ch) for a one-character ch: drops every trailing ch
rstrip(s, ch) ==
    IF Len(s) > 0 /\ SubSeq(s, Len(s), Len(s)) = ch
    THEN rstrip(SubSeq(s, 1, Len(s) - 1), ch)
    ELSE s

(***************************************************************************)
(* OpenAICompatibleClient.__init__ (openai_client.py 37-48).               *)
(***************************************************************************)
DefaultApiBase == "https://api.openai.com/v1"
DefaultModel == "gpt-4.1-mini"
DefaultTimeoutSeconds == 30

\* a faulty variant of the constructor: the environment wins over the arguments
OpenAICompatibleClient_EnvFirst(kwargs, environ) ==
    [ api_base      |-> Or(getenv(environ, "AI_API_BASE", None),
                           Or(Get(kwargs, "api_base", None), DefaultApiBase)),
      api_key       |-> Or(getenv(environ, "AI_API_KEY", None),
                           Or(Get(kwargs, "api_key", None), "")),
      default_model |-> Or(getenv(environ, "AI_MODEL_DEFAULT", None),
                           Or(Get(kwargs, "default_model", None), DefaultModel)),
      timeout       |-> Get(kwargs, "timeout_seconds", DefaultTimeoutSeconds) ]

\* the adapter object: its three resolved settings and its HTTP client's timeout
OpenAICompatibleClient(kwargs, environ) ==
    [ api_base      |-> Or(Get(kwargs, "api_base", None),
                           getenv(environ, "AI_API_BASE", DefaultApiBase)),
      api_key       |-> Or(Get(kwargs, "api_key", None),
                           getenv(environ, "AI_API_KEY", "")),
      default_model |-> Or(Get(kwargs, "default_model", None),
                           getenv(environ, "AI_MODEL_DEFAULT", DefaultModel)),
      timeout       |-> Get(kwargs, "timeout_seconds", DefaultTimeoutSeconds) ]

(***************************************************************************)
(* OpenAICompatibleClient.chat_completion up to the POST (50-80).          *)
(***************************************************************************)
DefaultTemperature == "0.3"
DefaultMaxTokens == 800

\* the model the request names: `model or self.default_model`
ResolvedModel(client, kwargs) == Or(Get(kwargs, "model", None), client.default_model)

\* a faulty variant of the metadata test: `if metadata is not None`
MetadataGiven_NotNone(kwargs) == Get(kwargs, "metadata", None) # None

\* `if metadata:` is false for None and for the empty mapping
MetadataGiven(kwargs) == Get(kwargs, "metadata", None) \notin {None, "{}"}

\* a faulty variant of the payload: only the last message is sent
Payload_LastMessageOnly(client, kwargs) ==
    LET n == Len(kwargs.messages)
        base == [ model       |-> ResolvedModel(client, kwargs),
                  messages    |-> [i \in 1..(IF n = 0 THEN 0 ELSE 1) |->
                                     [role    |-> kwargs.messages[n].role,
                                      content |-> kwargs.messages[n].content]],
                  temperature |-> Get(kwargs, "temperature", DefaultTemperature),
                  max_tokens  |-> Get(kwargs, "max_tokens", DefaultMaxTokens) ]
    IN  IF MetadataGiven(kwargs)
        THEN base @@ [metadata |-> kwargs.metadata]
        ELSE base

\* payload (62-69)
Payload(client, kwargs) ==
    LET base == [ model       |-> ResolvedModel(client, kwargs),
                  messages    |-> [i \in 1..Len(kwargs.messages) |->
                                     [role    |-> kwargs.messages[i].role,
                                      content |-> kwargs.messages[i].content]],
                  temperature |-> Get(kwargs, "temperature", DefaultTemperature),
                  max_tokens  |-> Get(kwargs, "max_tokens", DefaultMaxTokens) ]
    IN  IF MetadataGiven(kwargs)
        THEN base @@ [metadata |-> kwargs.metadata]
        ELSE base

\* headers (71-74)
Headers(client) ==
    ("Authorization" :> ("Bearer " \o client.api_key)) @@
    ("Content-Type" :> "application/json")

\* a faulty variant of the URL: the base is used as it is
ChatCompletionsUrl_NoStrip(client) == client.api_base \o "/chat/completions"

\* url (76)
ChatCompletionsUrl(client) == rstrip(client.api_base, "/") \o "/chat/completions"

\* the request handed to self._client.post (80)
Request(client, kwargs) ==
    [ method  |-> "POST",
      url     |-> ChatCompletionsUrl(client),
      json    |-> Payload(client, kwargs),
      headers |-> Headers(client),
      timeout |-> client.timeout ]

(***************************************************************************)
(* OpenAICompatibleClient.chat_completion from the provider's answer on    *)
(* (80-103).  The transport hands back either an exception of the POST     *)
(* (a network failure, the timeout) or a response: a status code and a     *)
(* body that is JSON text or not.                                          *)
(***************************************************************************)
EmptyDict == << >>

\* httpx.Response.is_success, which raise_for_status tests: a 2xx status
is_success(status_code) == status_code >= 200 /\ status_code <= 299

\* uuid.uuid4(): 122 random bits; modelled as a draw that never repeats,
\* `drawn` being the number of values drawn so far in the process
uuid4(drawn) == "uuid4-" \o ToString(drawn + 1)

\* a faulty variant of the choice mapping: the index is always the position
ParseChoice_IndexFromPosition(choice, idx) ==
    LET message == Get(choice, "message", EmptyDict)
    IN  [ index         |-> idx,
          message       |-> [ role    |-> Get(message, "role", "assistant"),
                              content |-> Get(message, "content", "") ],
          finish_reason |-> Get(choice, "finish_reason", None) ]

\* a faulty variant of the choice mapping: the role is always "assistant"
ParseChoice_RoleFixed(choice, idx) ==
    LET message == Get(choice, "message", EmptyDict)
    IN  [ index         |-> Get(choice, "index", idx),
          message       |-> [ role    |-> "assistant",
                              content |-> Get(message, "content", "") ],
          finish_reason |-> Get(choice, "finish_reason", None) ]

\* one ChatCompletionChoice (86-95); idx is enumerate's zero-based position
ParseChoice(choice, idx) ==
    LET message == Get(choice, "message", EmptyDict)
    IN  [ index         |-> Get(choice, "index", idx),
          message       |-> [ role    |-> Get(message, "role", "assistant"),
                              content |-> Get(message, "content", "") ],
          finish_reason |-> Get(choice, "finish_reason", None) ]

\* the choices loop (84-96)
ParseChoices(data) ==
    LET raw == Get(data, "choices", << >>)
    IN  [i \in 1..Len(raw) |-> ParseChoice(raw[i], i - 1)]

\* whether `data.get("id") or uuid.uuid4()` evaluates uuid4()
NeedsUuid(data) == ~Truthy(Get(data, "id", None))

\* a faulty variant of the id: one uuid drawn at import time serves every call
ResultId_Shared(data, drawn) == IF NeedsUuid(data) THEN uuid4(0) ELSE data["id"]

\* id=str(data.get("id") or uuid.uuid4()) (99)
ResultId(data, drawn) == IF NeedsUuid(data) THEN uuid4(drawn) ELSE data["id"]

\* model=data.get("model", model or self.default_model) (100)
ResultModel(client, kwargs, data) ==
    Get(data, "model", ResolvedModel(client, kwargs))

\* the ChatCompletionResult (98-103)
ParseResult(client, kwargs, data, drawn) ==
    [ id      |-> ResultId(data, drawn),
      model   |-> ResultModel(client, kwargs, data),
      choices |-> ParseChoices(data),
      usage   |-> Get(data, "usage", None) ]

\* a faulty variant of the status check: only 4xx and 5xx raise
RaisesForStatus_ErrorsOnly(reply) == reply.status_code >= 400

\* response.raise_for_status() (81)
RaisesForStatus(reply) == ~is_success(reply.status_code)

\* What `await chat_completion(...)` gives its caller once the transport has
\* answered: the exception raised (None when it returns), the result, and
\* the number of uuid4 draws after the call.
ChatCompletionReturn(client, kwargs, reply, drawn) ==
    IF reply.kind = "error"
    THEN [raised |-> reply.exc, result |-> EmptyDict, drawn |-> drawn]
    ELSE IF RaisesForStatus(reply)
    THEN [raised |-> "HTTPStatusError", result |-> EmptyDict, drawn |-> drawn]
    ELSE IF ~reply.body.is_json
    THEN [raised |-> "JSONDecodeError", result |-> EmptyDict, drawn |-> drawn]
    ELSE [ raised |-> None,
           result |-> ParseResult(client, kwargs, reply.body.data, drawn),
           drawn  |-> IF NeedsUuid(reply.body.data) THEN drawn + 1 ELSE drawn ]

(***************************************************************************)
(* _ai_client / get_ai_client (dependencies/ai_client.py 8-26).            *)
(* lru_cache keeps the value of the first call that returned; `cache` is   *)
(* that cache (empty, or the one cached instance) and `instances` the      *)
(* adapter objects constructed so far, an object's identity being its      *)
(* position.  `factory` holds the keyword arguments the provisioning       *)
(* factory gives the constructor: none in this repository.                 *)
(***************************************************************************)
\* a faulty variant of the provisioning: no cache, a new adapter on every call
get_ai_client_Uncached(cached, made, kwargs, environ) ==
    [ client    |-> Len(made) + 1,
      cache     |-> cached,
      instances |-> Append(made, OpenAICompatibleClient(kwargs, environ)) ]

\* get_ai_client() -> _ai_client(): the instance returned, and the cache and
\* the constructed instances after the call
get_ai_client(cached, made, kwargs, environ) ==
    IF cached # << >>
    THEN [client |-> cached[1], cache |-> cached, instances |-> made]
    ELSE [ client    |-> Len(made) + 1,
           cache     |-> << Len(made) + 1 >>,
           instances |-> Append(made, OpenAICompatibleClient(kwargs, environ)) ]

(***************************************************************************)
(* json.loads on a chat message's content, as the workflows call it.  A    *)
(* JSON value carries its Python type; the contents listed here are the    *)
(* documents the model's provider may answer with, every other content     *)
(* ("not json", the empty string, None) makes json.loads raise.            *)
(***************************************************************************)
JDict(v) == [type |-> "dict", v |-> v]
JList(v) == [type |-> "list", v |-> v]
JStr(v)  == [type |-> "str", v |-> v]
JNum(v)  == [type |-> "number", v |-> v]

JsonScores  == "{\"overall_score\":0.8}"
JsonItems   == "{\"match_score\":0.5,\"suggestions\":[{\"rationale\":\"r\"}],\"insights\":[{\"insight\":\"i\"}]}"
JsonScalars == "{\"suggestions\":\"x\",\"insights\":\"x\"}"
JsonArray   == "[1]"
NotJson     == "not json"

JsonLoads(content) ==
    CASE content = JsonScores ->
           [ok |-> TRUE, value |-> JDict([overall_score |-> JNum("0.8")])]
      [] content = JsonItems ->
           [ok |-> TRUE,
            value |-> JDict([ match_score |-> JNum("0.5"),
                              suggestions |-> JList(<< JDict([rationale |-> JStr("r")]) >>),
                              insights    |-> JList(<< JDict([insight |-> JStr("i")]) >>) ])]
      [] content = JsonScalars ->
           [ok |-> TRUE,
            value |-> JDict([suggestions |-> JStr("x"), insights |-> JStr("x")])]
      [] content = JsonArray ->
           [ok |-> TRUE, value |-> JList(<< JNum("1") >>)]
      [] OTHER -> [ok |-> FALSE, value |-> JStr("")]

\* parsed.get(key, default) on a parsed dict
JGet(parsed, key, default) == Get(parsed.v, key, default)

(***************************************************************************)
(* The relational store, as far as the AI workflows read and write it.     *)
(***************************************************************************)
Users == {"u1", "u2"}

SeedResumes ==
    { [id |-> "r1", user_id |-> "u1", title |-> "one", is_deleted |-> FALSE],
      [id |-> "r2", user_id |-> "u2", title |-> "two", is_deleted |-> FALSE],
      [id |-> "r3", user_id |-> "u1", title |-> "three", is_deleted |-> FALSE] }

SeedVersions ==
    { [id |-> "v1", resume_id |-> "r1", version_label |-> "v1", content |-> "resume one"],
      [id |-> "v2", resume_id |-> "r2", version_label |-> "v1", content |-> "resume two"],
      [id |-> "v3", resume_id |-> "r3", version_label |-> "v1", content |-> "resume three"] }

SeedJobDescriptions ==
    { [id |-> "j1", user_id |-> "u1", raw_text |-> "job one"],
      [id |-> "j2", user_id |-> "u2", raw_text |-> "job two"] }

\* age: days between created_at and now
SeedApplications ==
    { [id |-> "a1", user_id |-> "u1", status |-> "rejected", kanban_column |-> "rejected",
       notes |-> None, last_status_change_at |-> 0, is_deleted |-> FALSE, age |-> 3],
      [id |-> "a2", user_id |-> "u1", status |-> "rejected", kanban_column |-> "Phone screen",
       notes |-> None, last_status_change_at |-> 0, is_deleted |-> FALSE, age |-> 30],
      [id |-> "a3", user_id |-> "u2", status |-> "applied", kanban_column |-> "applied",
       notes |-> None, last_status_change_at |-> 0, is_deleted |-> FALSE, age |-> 3] }

\* the history create_application wrote for each of them, and the entry of
\* the update_status that gave a2 its custom column
SeedStatusHistory ==
    { [application_id |-> a.id, from_status |-> None, to_status |-> a.status,
       changed_at |-> -1, note |-> "Application created"] : a \in SeedApplications }
    \cup { [application_id |-> "a2", from_status |-> "rejected", to_status |-> "rejected",
            changed_at |-> 0, note |-> None] }

\* read_at is << >> while the notification is unread
SeedNotifications ==
    { [id |-> "n1", user_id |-> "u1", read_at |-> << >>],
      [id |-> "n2", user_id |-> "u2", read_at |-> << >>] }

ResumeIds == {r.id : r \in SeedResumes}
VersionIds == {v.id : v \in SeedVersions}
JobDescriptionIds == {j.id : j \in SeedJobDescriptions}

\* _get_resume_owned_by_user (service.py 332-343): the matching rows
ResumeOwnedByUser(store, resume_id, user_id) ==
    { r \in store.resumes :
        r.id = resume_id /\ r.user_id = user_id /\ ~r.is_deleted }

\* _get_version_owned_by_user (345-363): the versions joined to their resume
VersionOwnedByUser(store, version_id, user_id) ==
    { v \in store.versions :
        /\ v.id = version_id
        /\ \E r \in store.resumes :
             r.id = v.resume_id /\ r.user_id = user_id /\ ~r.is_deleted }

\* _get_job_description_owned_by_user (365-379)
JobDescriptionOwnedByUser(store, job_description_id, user_id) ==
    { j \in store.job_descriptions :
        j.id = job_description_id /\ j.user_id = user_id }

\* the one element of a set the lookups found
TheOne(S) == CHOOSE x \in S : TRUE

\* generate_insights' query (analytics/service.py 73-83), unordered
RejectedSince(store, user_id, focus_period_days) ==
    { a \in store.applications :
        a.user_id = user_id /\ a.status = "rejected" /\ a.age <= focus_period_days }

RECURSIVE NewestFirst(_)
\* .order_by(created_at.desc()): the youngest application first
NewestFirst(S) ==
    IF S = {} THEN << >>
    ELSE LET a == CHOOSE x \in S : \A y \in S : x.age <= y.age
         IN  << a >> \o NewestFirst(S \ {a})

RECURSIVE Join(_, _)
\* sep.join(lines)
Join(lines, sep) ==
    IF Len(lines) = 0 THEN ""
    ELSE IF Len(lines) = 1 THEN lines[1]
    ELSE lines[1] \o sep \o Join(Tail(lines), sep)

(***************************************************************************)
(* What a service method hands back to its router: the exception it lets   *)
(* out (None when it returns), the kind of value returned, the value as a  *)
(* list of the rows it describes, and the rows to commit.  The router      *)
(* passes the value on; main.py's handler turns a JobPathException into    *)
(* its status_code and anything else ends as a 500.                        *)
(***************************************************************************)
Raise(exc) ==
    [raised |-> exc, returns |-> "nothing", value |-> << >>, rows |-> {}]

ReturnList(value, rows) ==
    [raised |-> None, returns |-> "list", value |-> value, rows |-> rows]

ReturnObject(row) ==
    [raised |-> None, returns |-> "object", value |-> << row >>, rows |-> {row}]

\* exceptions.py: the status_code of the JobPathException subclasses
HttpStatus(raised) ==
    CASE raised = None -> 200
      [] raised = "ValidationException" -> 422
      [] raised = "AuthorizationException" -> 403
      [] OTHER -> 500

(***************************************************************************)
(* ResumeService.analyze_version (resume/service.py 128-187).              *)
(***************************************************************************)
AnalyzeVersionKwargs(version) ==
    [ model       |-> "resume-analysis",
      messages    |-> << [role |-> "system", content |-> "Analyze the following resume."],
                         [role |-> "user", content |-> version.content] >>,
      temperature |-> "0.2",
      max_tokens  |-> 800,
      metadata    |-> "{tool:resume_analysis}" ]

\* 159-187: cc is what the awaited chat_completion gave
AnalyzeVersionReturn(t, args, cc) ==
    IF cc.raised # None THEN Raise(cc.raised)
    ELSE IF Len(cc.result.choices) = 0 THEN Raise("IndexError")
    ELSE LET loaded == JsonLoads(cc.result.choices[1].message.content)
             parsed == loaded.value
         IN  IF ~loaded.ok THEN Raise("ValidationException")
             ELSE IF parsed.type # "dict" THEN Raise("AttributeError")
             ELSE ReturnObject(
                    [ table             |-> "ResumeAnalysis",
                      call              |-> t,
                      n                 |-> 1,
                      resume_version_id |-> args.version_id,
                      job_description_id |-> None,
                      user_id           |-> None,
                      body              |-> JGet(parsed, "overall_score", JStr(None)) ])

(***************************************************************************)
(* ResumeService.create_match (202-254).                                   *)
(***************************************************************************)
CreateMatchKwargs(version, jd) ==
    [ model       |-> "resume-jd-match",
      messages    |-> << [role |-> "system", content |-> "Compare the resume and job description."],
                         [role |-> "user",
                          content |-> "RESUME:\n" \o version.content
                                       \o "\n\nJOB DESCRIPTION:\n" \o jd.raw_text] >>,
      temperature |-> "0.2",
      max_tokens  |-> 600,
      metadata    |-> "{tool:resume_job_match}" ]

\* 233-254: the subscript is inside the try, so an empty choices list ends
\* in the same ValidationException as unparseable content
CreateMatchReturn(t, args, cc) ==
    IF cc.raised # None THEN Raise(cc.raised)
    ELSE LET indexable == Len(cc.result.choices) > 0
             loaded == IF indexable
                       THEN JsonLoads(cc.result.choices[1].message.content)
                       ELSE [ok |-> FALSE, value |-> JStr("")]
             parsed == loaded.value
         IN  IF ~loaded.ok THEN Raise("ValidationException")
             ELSE IF parsed.type # "dict" THEN Raise("AttributeError")
             ELSE ReturnObject(
                    [ table             |-> "ResumeJobMatch",
                      call              |-> t,
                      n                 |-> 1,
                      resume_version_id |-> args.version_id,
                      job_description_id |-> args.job_description_id,
                      user_id           |-> None,
                      body              |-> JGet(parsed, "match_score", JNum("0.0")) ])

(***************************************************************************)
(* ResumeService.generate_edit_suggestions (256-328).                      *)
(***************************************************************************)
EditSuggestionsKwargs(version, jds) ==
    [ model       |-> "resume-edit-suggestions",
      messages    |-> << [role |-> "system", content |-> "Suggest concrete text edits."],
                         [role |-> "user",
                          content |-> "INSTRUCTIONS:\ntailor\n\nRESUME:\n" \o version.content
                                       \o (IF jds = {} THEN ""
                                           ELSE "\n\nJOB DESCRIPTION:\n" \o TheOne(jds).raw_text)] >>,
      temperature |-> "0.4",
      max_tokens  |-> 900,
      metadata    |-> "{tool:resume_edit_suggestions}" ]

\* 293-328
EditSuggestionsReturn(t, args, cc) ==
    IF cc.raised # None THEN Raise(cc.raised)
    ELSE LET indexable == Len(cc.result.choices) > 0
             loaded == IF indexable
                       THEN JsonLoads(cc.result.choices[1].message.content)
                       ELSE [ok |-> FALSE, value |-> JStr("")]
             parsed == loaded.value
         IN  IF ~loaded.ok THEN Raise("ValidationException")
             ELSE IF parsed.type # "dict" THEN Raise("AttributeError")
             ELSE LET raw == JGet(parsed, "suggestions", JList(<< >>))
                      made == [i \in 1..Len(raw.v) |->
                                [ table             |-> "ResumeEditSuggestion",
                                  call              |-> t,
                                  n                 |-> i,
                                  resume_version_id |-> args.version_id,
                                  job_description_id |-> args.job_description_id,
                                  user_id           |-> None,
                                  body              |-> JGet(raw.v[i], "rationale", JStr(None)) ]]
                  IN  IF raw.type # "list" THEN Raise("ValidationException")
                      ELSE ReturnList(made, {made[i] : i \in 1..Len(made)})

(***************************************************************************)
(* RejectionInsightsService.generate_insights (analytics/service.py        *)
(* 67-143).                                                                *)
(***************************************************************************)
InsightsKwargs(rejections) ==
    [ model       |-> "rejection-insights",
      messages    |-> << [role |-> "system", content |-> "Analyze these rejected applications."],
                         [role |-> "user",
                          content |-> Join([i \in 1..Len(rejections) |->
                                              "- " \o rejections[i].id], "\n\n")] >>,
      temperature |-> "0.4",
      max_tokens  |-> 800,
      metadata    |-> "{tool:rejection_insights}" ]

\* a faulty variant of generate_insights: the call itself sits inside the try
InsightsReturn_Swallows(t, args, cc) ==
    IF cc.raised # None THEN ReturnList(<< >>, {})
    ELSE LET indexable == Len(cc.result.choices) > 0
             loaded == IF indexable
                       THEN JsonLoads(cc.result.choices[1].message.content)
                       ELSE [ok |-> FALSE, value |-> JStr("")]
             parsed == loaded.value
         IN  IF ~loaded.ok THEN ReturnList(<< >>, {})
             ELSE IF parsed.type # "dict" THEN Raise("AttributeError")
             ELSE LET raw == JGet(parsed, "insights", JList(<< >>))
                      made == [i \in 1..Len(raw.v) |->
                                [ table             |-> "RejectionInsight",
                                  call              |-> t,
                                  n                 |-> i,
                                  resume_version_id |-> None,
                                  job_description_id |-> None,
                                  user_id           |-> args.user_id,
                                  body              |-> JGet(raw.v[i], "insight", JStr("")) ]]
                  IN  IF raw.type # "list" THEN ReturnList(<< >>, {})
                      ELSE ReturnList(made, {made[i] : i \in 1..Len(made)})

\* a faulty variant of generate_insights: a parse failure is raised, as the
\* resume workflows raise it
InsightsReturn_Raises(t, args, cc) ==
    IF cc.raised # None THEN Raise(cc.raised)
    ELSE LET indexable == Len(cc.result.choices) > 0
             loaded == IF indexable
                       THEN JsonLoads(cc.result.choices[1].message.content)
                       ELSE [ok |-> FALSE, value |-> JStr("")]
             parsed == loaded.value
         IN  IF ~loaded.ok THEN Raise("ValidationException")
             ELSE IF parsed.type # "dict" THEN Raise("AttributeError")
             ELSE LET raw == JGet(parsed, "insights", JList(<< >>))
                      made == [i \in 1..Len(raw.v) |->
                                [ table             |-> "RejectionInsight",
                                  call              |-> t,
                                  n                 |-> i,
                                  resume_version_id |-> None,
                                  job_description_id |-> None,
                                  user_id           |-> args.user_id,
                                  body              |-> JGet(raw.v[i], "insight", JStr("")) ]]
                  IN  IF raw.type # "list" THEN ReturnList(<< >>, {})
                      ELSE ReturnList(made, {made[i] : i \in 1..Len(made)})

\* 117-143: a failure of the subscript or of json.loads is caught and
\* answered with an empty list
InsightsReturn(t, args, cc) ==
    IF cc.raised # None THEN Raise(cc.raised)
    ELSE LET indexable == Len(cc.result.choices) > 0
             loaded == IF indexable
                       THEN JsonLoads(cc.result.choices[1].message.content)
                       ELSE [ok |-> FALSE, value |-> JStr("")]
             parsed == loaded.value
         IN  IF ~loaded.ok THEN ReturnList(<< >>, {})
             ELSE IF parsed.type # "dict" THEN Raise("AttributeError")
             ELSE LET raw == JGet(parsed, "insights", JList(<< >>))
                      made == [i \in 1..Len(raw.v) |->
                                [ table             |-> "RejectionInsight",
                                  call              |-> t,
                                  n                 |-> i,
                                  resume_version_id |-> None,
                                  job_description_id |-> None,
                                  user_id           |-> args.user_id,
                                  body              |-> JGet(raw.v[i], "insight", JStr("")) ]]
                  IN  IF raw.type # "list" THEN ReturnList(<< >>, {})
                      ELSE ReturnList(made, {made[i] : i \in 1..Len(made)})

\* a caller that hands the ChatCompletionResult on as it is (50-103)
DirectReturn(args, cc) ==
    IF cc.raised # None THEN Raise(cc.raised)
    ELSE [raised |-> None, returns |-> "result", value |-> << >>, rows |-> {}]

AIWorkflows ==
    {"analyze_version", "create_match", "generate_edit_suggestions", "generate_insights"}

\* the rest of the handler that awaited chat_completion
WorkflowReturn(t, wf, args, cc) ==
    CASE wf = "analyze_version" -> AnalyzeVersionReturn(t, args, cc)
      [] wf = "create_match" -> CreateMatchReturn(t, args, cc)
      [] wf = "generate_edit_suggestions" -> EditSuggestionsReturn(t, args, cc)
      [] wf = "generate_insights" -> InsightsReturn(t, args, cc)
      [] OTHER -> DirectReturn(args, cc)

(***************************************************************************)
(* The auth routes: app/exceptions/exceptions.py, services/auth/security.py,*)
(* repository.py, service.py, router.py and dependencies/dependency.py.     *)
(*                                                                         *)
(* An exception is a record of its class and, for a JobPathException, its  *)
(* status_code and detail.                                                 *)
(***************************************************************************)
NoException == [class |-> "None"]

\* JobPathException.__init__ (exceptions.py 7-14)
JobPathException(class, status_code, detail) ==
    [class |-> class, status_code |-> status_code, detail |-> detail]

IsJobPathException(exc) == "status_code" \in DOMAIN exc

\* a call with a keyword the callee's signature does not have
TypeError == [class |-> "TypeError"]

\* exceptions.py 24-28, 31-35, 38-42, 80-84
InvalidCredentialsException ==
    JobPathException("InvalidCredentialsException", 401, [error |-> "invalid_credentials"])
UserNotFoundException ==
    JobPathException("UserNotFoundException", 401, [error |-> "user_not_found"])
DuplicateEmailException ==
    JobPathException("DuplicateEmailException", 409, [error |-> "email_exists"])
DatabaseException ==
    JobPathException("DatabaseException", 500, [error |-> "database_error"])

\* TokenException.__init__(self, message) (45-49): it takes no `detail`; what
\* constructing one with the keywords `passed` gives
TokenException(passed) ==
    IF passed \subseteq {"message"}
    THEN JobPathException("TokenException", 401, [error |-> "invalid_token"])
    ELSE TypeError

\* what `raise TokenExpiredException(message)` raises (52-56): its __init__
\* calls super().__init__(message, detail={"error": "token_expired"})
TokenExpiredException == TokenException({"message", "detail"})

\* what `raise InvalidTokenException(message)` raises (59-63): its __init__
\* calls super().__init__(message, detail={"error": "invalid_token_format"})
InvalidTokenException == TokenException({"message", "detail"})

(***************************************************************************)
(* str helpers of security.py.                                             *)
(***************************************************************************)
UpperCase == "ABCDEFGHIJKLMNOPQRSTUVWXYZ"
LowerCase == "abcdefghijklmnopqrstuvwxyz"

RECURSIVE lower(_)
\* str.lower()
lower(s) ==
    IF Len(s) = 0 THEN ""
    ELSE LET c == SubSeq(s, 1, 1)
             at == {i \in 1..Len(UpperCase) : SubSeq(UpperCase, i, i) = c}
         IN  (IF at = {} THEN c
              ELSE LET i == CHOOSE i \in at : TRUE IN SubSeq(LowerCase, i, i))
             \o lower(SubSeq(s, 2, Len(s)))

\* `sub in s`
Contains(s, sub) ==
    \E i \in 1..(Len(s) - Len(sub) + 1) : SubSeq(s, i, i + Len(sub) - 1) = sub

(***************************************************************************)
(* security.py.  bcrypt is modelled as an ideal hash: a digest no other    *)
(* password has.  A JWT is the claims and the key that signed them; a      *)
(* string that is no JWT is a token without claims.                        *)
(***************************************************************************)
JWT_SECRET_KEY == "your-secret-key-change-in-production"
ACCESS_TOKEN_EXPIRE_MINUTES == 30

\* hash_password (28-37)
hash_password(password) == [scheme |-> "bcrypt", digest |-> password]

\* a faulty variant of verify_password: any password verifies
verify_password_AlwaysTrue(plain_password, hashed_password) ==
    hashed_password.scheme = "bcrypt"

\* verify_password (40-53)
verify_password(plain_password, hashed_password) ==
    /\ hashed_password.scheme = "bcrypt"
    /\ hashed_password.digest = plain_password

\* jwt.encode
jwt_encode(claims, key) == [claims |-> claims, signed_with |-> key]

\* a string without the three segments of a JWT
NotAJwt(text) == [text |-> text]

\* jwt.decode at time `clock`: the JWTError message ("" when it returns) and
\* the claims
jwt_decode(token, key, clock) ==
    IF "claims" \notin DOMAIN token
    THEN [error |-> "Not enough segments", payload |-> EmptyDict]
    ELSE IF token.signed_with # key
    THEN [error |-> "Signature verification failed.", payload |-> EmptyDict]
    ELSE IF "exp" \in DOMAIN token.claims /\ token.claims.exp < clock
    THEN [error |-> "Signature has expired.", payload |-> EmptyDict]
    ELSE [error |-> "", payload |-> token.claims]

\* create_access_token (56-86); expires_delta in minutes, 0 standing for a
\* delta that is None or empty
create_access_token(data, expires_delta, clock) ==
    LET expire == IF expires_delta # 0
                  THEN clock + expires_delta
                  ELSE clock + ACCESS_TOKEN_EXPIRE_MINUTES
    IN  jwt_encode([k \in (DOMAIN data) \cup {"exp"} |->
                      IF k = "exp" THEN expire ELSE data[k]],
                   JWT_SECRET_KEY)

\* verify_token (89-116): the exception raised (NoException when it returns)
\* and the payload
verify_token(token, blacklist, clock) ==
    IF token \in blacklist
    THEN [raised |-> InvalidTokenException, payload |-> EmptyDict]
    ELSE LET decoded == jwt_decode(token, JWT_SECRET_KEY, clock)
         IN  IF decoded.error = ""
             THEN [raised |-> NoException, payload |-> decoded.payload]
             ELSE IF Contains(lower(decoded.error), "expired")
             THEN [raised |-> TokenExpiredException, payload |-> EmptyDict]
             ELSE [raised |-> InvalidTokenException, payload |-> EmptyDict]

\* add_token_to_blacklist (119-125)
add_token_to_blacklist(token, blacklist) == blacklist \cup {token}

\* extract_token_from_header (140-157); parts is auth_header.split()
extract_token_from_header(parts) ==
    IF Len(parts) # 2 \/ lower(parts[1]) # "bearer"
    THEN [raised |-> InvalidTokenException, token |-> NotAJwt("")]
    ELSE [raised |-> NoException, token |-> parts[2]]

(***************************************************************************)
(* repository.py.  A query gives the set of rows it matches; the unique    *)
(* index on users.email (models.py 40) keeps that to one row at most.      *)
(***************************************************************************)
\* get_user_by_email (49-67)
get_user_by_email(table, email) == {u \in table : u.email = email}

\* get_user_by_id (69-87)
get_user_by_id(table, user_id) == {u \in table : u.id = user_id}

\* a faulty variant of user_exists: only active users count
user_exists_ActiveOnly(table, email) ==
    \E u \in table : u.email = email /\ u.is_active

\* user_exists (89-107)
user_exists(table, email) == get_user_by_email(table, email) # {}

\* the User row create_user adds (37-41)
User(id, email, password_hash) ==
    [id |-> id, email |-> email, password_hash |-> password_hash, is_active |-> TRUE]

\* create_user (23-47): the flush fails on the unique index when the email
\* is taken; the session is rolled back and DatabaseException raised
create_user(table, id, email, password_hash) ==
    IF \E u \in table : u.email = email
    THEN [raised |-> DatabaseException, table |-> table, user |-> EmptyDict]
    ELSE [ raised |-> NoException,
           table  |-> table \cup {User(id, email, password_hash)},
           user   |-> User(id, email, password_hash) ]

(***************************************************************************)
(* service.py: what an AuthService method hands its router, the exception  *)
(* it lets out (NoException when it returns) and the value returned.       *)
(***************************************************************************)
Raised(exc) == [raised |-> exc, value |-> EmptyDict]
Returned(value) == [raised |-> NoException, value |-> value]

\* AuthService.login (72-122) at time `clock`
login(table, email, password, clock) ==
    LET found == get_user_by_email(table, email)
        user == TheOne(found)
    IN  IF found = {} THEN Raised(InvalidCredentialsException)
        ELSE IF ~verify_password(password, user.password_hash)
        THEN Raised(InvalidCredentialsException)
        ELSE IF ~user.is_active THEN Raised(InvalidCredentialsException)
        ELSE Returned(
               [ access_token |-> create_access_token(
                                    [user_id |-> user.id, email |-> user.email],
                                    ACCESS_TOKEN_EXPIRE_MINUTES, clock),
                 token_type   |-> "bearer",
                 user         |-> [ id |-> user.id, email |-> user.email,
                                    is_active |-> user.is_active ] ])

\* AuthService.logout (124-142): the outcome and the blacklist after it
logout(token, blacklist, clock) ==
    LET verified == verify_token(token, blacklist, clock)
    IN  IF verified.raised # NoException
        THEN [outcome |-> Raised(verified.raised), blacklist |-> blacklist]
        ELSE [ outcome   |-> Returned([message |-> "Logged out successfully"]),
               blacklist |-> add_token_to_blacklist(token, blacklist) ]

\* AuthService.get_current_user (144-173)
get_current_user(token, blacklist, clock, table) ==
    LET verified == verify_token(token, blacklist, clock)
        user_id == Get(verified.payload, "user_id", None)
        email == Get(verified.payload, "email", None)
        found == get_user_by_id(table, user_id)
        user == TheOne(found)
    IN  IF verified.raised # NoException THEN Raised(verified.raised)
        ELSE IF ~Truthy(user_id) \/ ~Truthy(email) THEN Raised(InvalidTokenException)
        ELSE IF found = {} THEN Raised(UserNotFoundException)
        ELSE Returned([id |-> user.id, email |-> user.email,
                       is_active |-> user.is_active])

(***************************************************************************)
(* router.py and main.py: the HTTP response of an outcome.  A router turns *)
(* a JobPathException into a JSON body; any other exception leaves the     *)
(* route and the server answers 500.                                       *)
(***************************************************************************)
InternalServerError ==
    [status_code |-> 500, body |-> [text |-> "Internal Server Error"]]

\* `except JobPathException as e: return JSONResponse(...)` (router.py 65-73)
RouterResponse(outcome, status_code, fallback) ==
    IF outcome.raised = NoException
    THEN [status_code |-> status_code, body |-> outcome.value]
    ELSE IF IsJobPathException(outcome.raised)
    THEN [ status_code |-> outcome.raised.status_code,
           body |-> [ error       |-> Get(outcome.raised.detail, "error", fallback),
                      detail      |-> outcome.raised.detail,
                      status_code |-> outcome.raised.status_code ] ]
    ELSE InternalServerError

\* jobpath_exception_handler (main.py 81-99), for a route that depends on
\* dependency.get_current_user
HandlerResponse(outcome) ==
    IF outcome.raised = NoException
    THEN [status_code |-> 200, body |-> outcome.value]
    ELSE IF IsJobPathException(outcome.raised)
    THEN [ status_code |-> outcome.raised.status_code,
           body |-> [ error  |-> Get(outcome.raised.detail, "error", "error"),
                      detail |-> outcome.raised.detail ] ]
    ELSE InternalServerError

\* dependency.get_current_user (dependency.py 12-45)
current_user_dependency(parts, blacklist, clock) ==
    LET extracted == extract_token_from_header(parts)
        verified == verify_token(extracted.token, blacklist, clock)
        user_id == Get(verified.payload, "user_id", None)
        email == Get(verified.payload, "email", None)
    IN  IF extracted.raised # NoException THEN Raised(InvalidTokenException)
        ELSE IF verified.raised # NoException THEN Raised(InvalidTokenException)
        ELSE IF ~Truthy(user_id) \/ ~Truthy(email) THEN Raised(InvalidTokenException)
        ELSE Returned([user_id |-> user_id, email |-> email])

(***************************************************************************)
(* The users the database holds when the process starts, and what their    *)
(* owners know: one account that was deactivated.                          *)
(***************************************************************************)
SeedUsers ==
    { [ id |-> "uuid4-seed", email |-> "old@x.io",
        password_hash |-> hash_password("password0"), is_active |-> FALSE ] }

SeedKnown == [passwords |-> ("old@x.io" :> "password0"), tokens |-> {}]

NoResponse == [status_code |-> 0, body |-> EmptyDict]

IdleCall == [pc |-> "idle", op |-> "none", args |-> EmptyDict, response |-> NoResponse]

(***************************************************************************)
(* Job applications (services/job_application): the rows of the two        *)
(* tables and the queries the repositories run.  A timestamp is the clock  *)
(* reading at which datetime.now() was called.                             *)
(***************************************************************************)
\* models.py 224-233: the members of JobApplicationStatusEnum, by value, in
\* the order of their definition
JobApplicationStatusEnum ==
    << "prospect", "applied", "interviewing", "offer", "rejected", "on_hold",
       "withdrawn" >>

PROSPECT == "prospect"
REJECTED == "rejected"

\* dict.setdefault(key, value): an existing key keeps its value
setdefault(d, key, value) == IF key \in DOMAIN d THEN d ELSE (key :> value) @@ d

\* the ORM's INSERT: a column that has a default takes it when the mapped
\* attribute was never set or was set to None
Column(data, name, default) ==
    IF name \in DOMAIN data /\ data[name] # None THEN data[name] ELSE default

\* create_application (service.py 74-78): payload.model_dump(exclude_unset=
\* True) holds the fields the request set; the dict handed to the repository
NewApplicationData(payload, user_id) ==
    LET status == Or(Get(payload, "status", None), PROSPECT)
        data == setdefault(setdefault(payload, "status", status),
                           "kanban_column", status)
    IN  ("user_id" :> user_id) @@ data

\* JobApplication(**data) once flushed (models.py 247-333)
JobApplication(id, data, clock) ==
    [ id            |-> id,
      user_id       |-> data["user_id"],
      status        |-> Column(data, "status", PROSPECT),
      kanban_column |-> Column(data, "kanban_column", PROSPECT),
      notes         |-> Get(data, "notes", None),
      last_status_change_at |-> clock,
      is_deleted    |-> FALSE,
      age           |-> 0 ]

\* JobApplicationStatusHistory(**obj_in) (models.py 335-364)
JobApplicationStatusHistory(application_id, from_status, to_status, changed_at, note) ==
    [ application_id |-> application_id, from_status |-> from_status,
      to_status |-> to_status, changed_at |-> changed_at, note |-> note ]

\* JobApplicationRepository.get_for_user (repository.py 22-81), no filter set
get_for_user(applications, user_id) ==
    { a \in applications : a.user_id = user_id /\ ~a.is_deleted }

\* a faulty variant of get_by_id_for_user: any user's application is found
get_by_id_for_user_AnyUser(applications, application_id, user_id) ==
    { a \in applications : a.id = application_id /\ ~a.is_deleted }

\* JobApplicationRepository.get_by_id_for_user (repository.py 83-100): the
\* matching rows
get_by_id_for_user(applications, application_id, user_id) ==
    { a \in applications :
        a.id = application_id /\ a.user_id = user_id /\ ~a.is_deleted }

RECURSIVE OldestFirst(_)
\* .order_by(changed_at.asc())
OldestFirst(S) ==
    IF S = {} THEN << >>
    ELSE LET h == CHOOSE x \in S : \A y \in S : x.changed_at <= y.changed_at
         IN  << h >> \o OldestFirst(S \ {h})

\* JobApplicationStatusHistoryRepository.list_for_application (124-136)
list_for_application(status_history, application_id) ==
    OldestFirst({ h \in status_history : h.application_id = application_id })

\* get_kanban_board (service.py 194-223): per column key, the applications
get_kanban_board(applications, user_id) ==
    [ i \in 1..Len(JobApplicationStatusEnum) |->
        [ key |-> JobApplicationStatusEnum[i],
          applications |-> { a \in get_for_user(applications, user_id) :
                               a.status = JobApplicationStatusEnum[i] } ] ]

\* AnalyticsService.applications_funnel (analytics/service.py 29-58)
applications_funnel(applications, user_id) ==
    LET rows == { a \in applications : a.user_id = user_id /\ ~a.is_deleted }
        counts == [ i \in 1..Len(JobApplicationStatusEnum) |->
                      Cardinality({ a \in rows :
                                      a.status = JobApplicationStatusEnum[i] }) ]
    IN  [ total |-> Cardinality(rows), stages |-> counts ]

\* what a service method of the CRUD routes returns
Return(kind, value) ==
    [raised |-> None, returns |-> kind, value |-> value, rows |-> {}]

\* a handler of the CRUD routes that serves no request
IdleReq ==
    [ pc |-> "idle", op |-> "none", args |-> EmptyDict, local |-> EmptyDict,
      outcome |-> Raise(None) ]

(***************************************************************************)
(* State.                                                                  *)
(***************************************************************************)
VARIABLES
    env,        \* os.environ: the AI_* variables that are set
    factory,    \* keyword arguments the provisioning factory passes on
    cache,      \* lru_cache of _ai_client
    instances,  \* the adapter objects constructed so far
    drawn,      \* number of uuid4() values drawn so far
    task,       \* per handler: where it is, and its local variables
    posts,      \* per handler: requests the transport has been handed
    store,      \* the database tables
    users,      \* the users table
    token_blacklist,  \* security.py's module-level set of revoked tokens
    now,        \* the clock, in minutes
    known,      \* what the clients hold: signup passwords, tokens login returned
    call,       \* per handler of the auth routes: where it is, its locals
    req         \* per handler of the CRUD routes: where it is, its locals

vars == << env, factory, cache, instances, drawn, task, posts, store,
           users, token_blacklist, now, known, call, req >>

\* the state of the AI core, which the auth routes leave alone
aiVars == << env, factory, cache, instances, task, posts, store >>

\* the state of the auth routes, which the AI core leaves alone
authVars == << users, token_blacklist, now, known, call >>

NoRequest == [method |-> "none"]
NoReply == [kind |-> "none"]

IdleFrame ==
    [ pc |-> "idle", wf |-> "none", args |-> EmptyDict, ai_client |-> 0,
      kwargs |-> EmptyDict, request |-> NoRequest, reply |-> NoReply,
      result |-> EmptyDict, outcome |-> Raise(None) ]

SeedStore ==
    [ resumes          |-> SeedResumes,
      versions         |-> SeedVersions,
      job_descriptions |-> SeedJobDescriptions,
      applications     |-> SeedApplications,
      status_history   |-> SeedStatusHistory,
      notifications    |-> SeedNotifications,
      user_profiles    |-> {},
      wellbeing_checkins |-> {},
      rows             |-> {} ]

InitProcess ==
    /\ cache = << >>
    /\ instances = << >>
    /\ drawn = 0
    /\ task = [t \in Tasks |-> IdleFrame]
    /\ posts = [t \in Tasks |-> 0]
    /\ store = SeedStore
    /\ users = SeedUsers
    /\ token_blacklist = {}
    /\ now = 0
    /\ known = SeedKnown
    /\ call = [t \in Tasks |-> IdleCall]
    /\ req = [t \in Tasks |-> IdleReq]

(***************************************************************************)
(* The first half of a handler.                                            *)
(***************************************************************************)
\* a faulty variant of the credential test: only an absent key counts
CredentialMissing_NoneOnly(client) == client.api_key = None

\* `if not self.api_key` (openai_client.py 59)
CredentialMissing(client) == ~Truthy(client.api_key)

\* the handler ends before it asks for the AI client
Finish(t, wf, args, outcome) ==
    /\ task' = [task EXCEPT ![t] =
                  [IdleFrame EXCEPT !.pc = "done", !.wf = wf, !.args = args,
                                    !.outcome = outcome]]
    /\ UNCHANGED << env, factory, cache, instances, drawn, posts, store, authVars, req >>

\* a faulty variant of the first half: the call stores the model it resolved
\* as the adapter's default (`self.default_model = model`)
Invoke_WritesDefaultModel(t, wf, args, kwargs) ==
    LET got == get_ai_client(cache, instances, factory, env)
        client == got.instances[got.client]
        failed == [raised |-> "RuntimeError", result |-> EmptyDict, drawn |-> drawn]
        out == WorkflowReturn(t, wf, args, failed)
    IN  /\ cache' = got.cache
        /\ instances' = [got.instances EXCEPT ![got.client].default_model =
                                                  ResolvedModel(client, kwargs)]
        /\ IF CredentialMissing(client)
           THEN /\ task' = [task EXCEPT ![t] =
                              [IdleFrame EXCEPT !.pc = "done", !.wf = wf, !.args = args,
                                                !.ai_client = got.client,
                                                !.kwargs = kwargs,
                                                !.outcome = out]]
                /\ posts' = posts
                /\ store' = [store EXCEPT !.rows = @ \cup out.rows]
           ELSE /\ task' = [task EXCEPT ![t] =
                              [IdleFrame EXCEPT !.pc = "await", !.wf = wf, !.args = args,
                                                !.ai_client = got.client,
                                                !.kwargs = kwargs,
                                                !.request = Request(client, kwargs)]]
                /\ posts' = [posts EXCEPT ![t] = @ + 1]
                /\ store' = store
        /\ UNCHANGED << env, factory, drawn, authVars, req >>

\* get_ai_client() and chat_completion(**kwargs) up to `await post`; without
\* a credential chat_completion raises at once and the workflow goes on from
\* that exception
Invoke(t, wf, args, kwargs) ==
    LET got == get_ai_client(cache, instances, factory, env)
        client == got.instances[got.client]
        failed == [raised |-> "RuntimeError", result |-> EmptyDict, drawn |-> drawn]
        out == WorkflowReturn(t, wf, args, failed)
    IN  /\ cache' = got.cache
        /\ instances' = got.instances
        /\ IF CredentialMissing(client)
           THEN /\ task' = [task EXCEPT ![t] =
                              [IdleFrame EXCEPT !.pc = "done", !.wf = wf, !.args = args,
                                                !.ai_client = got.client,
                                                !.kwargs = kwargs,
                                                !.outcome = out]]
                /\ posts' = posts
                /\ store' = [store EXCEPT !.rows = @ \cup out.rows]
           ELSE /\ task' = [task EXCEPT ![t] =
                              [IdleFrame EXCEPT !.pc = "await", !.wf = wf, !.args = args,
                                                !.ai_client = got.client,
                                                !.kwargs = kwargs,
                                                !.request = Request(client, kwargs)]]
                /\ posts' = [posts EXCEPT ![t] = @ + 1]
                /\ store' = store
        /\ UNCHANGED << env, factory, drawn, authVars, req >>

\* ResumeService.analyze_version up to the await (128-158)
AnalyzeVersion(t, user_id, resume_id, version_id) ==
    /\ task[t].pc = "idle"
    /\ LET args == [user_id |-> user_id, resume_id |-> resume_id,
                    version_id |-> version_id, job_description_id |-> None]
           versions == VersionOwnedByUser(store, version_id, user_id)
       IN  IF ResumeOwnedByUser(store, resume_id, user_id) = {} \/ versions = {}
           THEN Finish(t, "analyze_version", args, Raise("AuthorizationException"))
           ELSE Invoke(t, "analyze_version", args, AnalyzeVersionKwargs(TheOne(versions)))

\* a faulty variant of create_match: the job description is looked up by id
\* alone, after the request has been built from the version
CreateMatch_JobUnchecked(t, user_id, version_id, job_description_id) ==
    /\ task[t].pc = "idle"
    /\ LET args == [user_id |-> user_id, resume_id |-> None,
                    version_id |-> version_id,
                    job_description_id |-> job_description_id]
           versions == VersionOwnedByUser(store, version_id, user_id)
           jds == { j \in store.job_descriptions : j.id = job_description_id }
       IN  IF versions = {} \/ jds = {}
           THEN Finish(t, "create_match", args, Raise("AuthorizationException"))
           ELSE Invoke(t, "create_match", args,
                       CreateMatchKwargs(TheOne(versions), TheOne(jds)))

\* ResumeService.create_match up to the await (202-231)
CreateMatch(t, user_id, version_id, job_description_id) ==
    /\ task[t].pc = "idle"
    /\ LET args == [user_id |-> user_id, resume_id |-> None,
                    version_id |-> version_id,
                    job_description_id |-> job_description_id]
           versions == VersionOwnedByUser(store, version_id, user_id)
           jds == JobDescriptionOwnedByUser(store, job_description_id, user_id)
       IN  IF versions = {} \/ jds = {}
           THEN Finish(t, "create_match", args, Raise("AuthorizationException"))
           ELSE Invoke(t, "create_match", args,
                       CreateMatchKwargs(TheOne(versions), TheOne(jds)))

\* ResumeService.generate_edit_suggestions up to the await (256-291);
\* job_description_id is None when the payload names none
GenerateEditSuggestions(t, user_id, version_id, job_description_id) ==
    /\ task[t].pc = "idle"
    /\ LET args == [user_id |-> user_id, resume_id |-> None,
                    version_id |-> version_id,
                    job_description_id |-> job_description_id]
           versions == VersionOwnedByUser(store, version_id, user_id)
           jds == IF Truthy(job_description_id)
                  THEN JobDescriptionOwnedByUser(store, job_description_id, user_id)
                  ELSE {}
       IN  IF versions = {} \/ (Truthy(job_description_id) /\ jds = {})
           THEN Finish(t, "generate_edit_suggestions", args,
                       Raise("AuthorizationException"))
           ELSE Invoke(t, "generate_edit_suggestions", args,
                       EditSuggestionsKwargs(TheOne(versions), jds))

\* a faulty variant of generate_insights: the provider is asked even when
\* there is no rejection
GenerateInsights_AlwaysAsks(t, user_id, focus_period_days) ==
    /\ task[t].pc = "idle"
    /\ LET args == [user_id |-> user_id, focus_period_days |-> focus_period_days]
           rejections == NewestFirst(RejectedSince(store, user_id, focus_period_days))
       IN  Invoke(t, "generate_insights", args, InsightsKwargs(rejections))

\* RejectionInsightsService.generate_insights up to the await (67-115)
GenerateInsights(t, user_id, focus_period_days) ==
    /\ task[t].pc = "idle"
    /\ LET args == [user_id |-> user_id, focus_period_days |-> focus_period_days]
           rejections == NewestFirst(RejectedSince(store, user_id, focus_period_days))
       IN  IF Len(rejections) = 0
           THEN Finish(t, "generate_insights", args, ReturnList(<< >>, {}))
           ELSE Invoke(t, "generate_insights", args, InsightsKwargs(rejections))

\* any other caller of the interface: get_ai_client().chat_completion(**kwargs)
ChatCompletion(t, kwargs) ==
    /\ task[t].pc = "idle"
    /\ Invoke(t, "chat_completion", EmptyDict, kwargs)

(***************************************************************************)
(* The second half: the transport answers the POST of handler t, the rest  *)
(* of chat_completion runs, then the rest of the workflow, whose rows are  *)
(* committed when it returns.                                              *)
(***************************************************************************)
\* a faulty variant of the second half: a failed request is sent once more
HttpReply_Retries(t, reply) ==
    /\ task[t].pc = "await"
    /\ LET f == task[t]
           cc == ChatCompletionReturn(instances[f.ai_client], f.kwargs, reply, drawn)
           out == WorkflowReturn(t, f.wf, f.args, cc)
       IN  IF cc.raised # None /\ posts[t] < 2
           THEN /\ posts' = [posts EXCEPT ![t] = @ + 1]
                /\ UNCHANGED << drawn, store, task >>
           ELSE /\ drawn' = cc.drawn
                /\ store' = [store EXCEPT !.rows = @ \cup out.rows]
                /\ task' = [task EXCEPT ![t] =
                              [f EXCEPT !.pc = "done", !.reply = reply,
                                        !.result = cc.result, !.outcome = out]]
                /\ posts' = posts
    /\ UNCHANGED << env, factory, cache, instances, authVars, req >>

HttpReply(t, reply) ==
    /\ task[t].pc = "await"
    /\ LET f == task[t]
           cc == ChatCompletionReturn(instances[f.ai_client], f.kwargs, reply, drawn)
           out == WorkflowReturn(t, f.wf, f.args, cc)
       IN  /\ drawn' = cc.drawn
           /\ store' = [store EXCEPT !.rows = @ \cup out.rows]
           /\ task' = [task EXCEPT ![t] =
                         [f EXCEPT !.pc = "done", !.reply = reply,
                                   !.result = cc.result, !.outcome = out]]
    /\ UNCHANGED << env, factory, cache, instances, posts, authVars, req >>

(***************************************************************************)
(* Inputs.                                                                 *)
(***************************************************************************)
\* the dicts that either lack `key` or map it to one of `values`
Opt(key, values) == {EmptyDict} \cup {key :> v : v \in values}

\* the sequences over S of length 0..n
SeqsUpTo(S, n) == UNION {[1..k -> S] : k \in 0..n}

TransportErrors ==
    { [kind |-> "error", exc |-> "ConnectError"],
      [kind |-> "error", exc |-> "ReadTimeout"] }

Response(status_code, body) ==
    [kind |-> "response", status_code |-> status_code, body |-> body]

JsonBody(data) == [is_json |-> TRUE, data |-> data]
TextBody == [is_json |-> FALSE, data |-> EmptyDict]

SuccessStatuses == {200, 201}
NonSuccessStatuses == {100, 302, 404, 500}

\* --- the process as deployed: the four workflows, the repository's factory
ProcessEnvs == Opt("AI_API_KEY", {"", "sk-env"})

FocusPeriods == {7, 60}

AssistantMessage(content) == [role |-> "assistant", content |-> content]

WorkflowContents ==
    {NotJson, None, JsonScores, JsonItems, JsonScalars, JsonArray}

WorkflowDatas ==
    { EmptyDict,
      [choices |-> << >>],
      [id |-> "cmpl-1", choices |-> << [message |-> AssistantMessage(JsonItems)] >>] }
    \cup { [choices |-> << [message |-> AssistantMessage(c)] >>] : c \in WorkflowContents }

WorkflowReplies ==
    TransportErrors
    \cup { Response(500, JsonBody([choices |-> << [message |-> AssistantMessage(JsonItems)] >>])),
           Response(200, TextBody) }
    \cup { Response(200, JsonBody(d)) : d \in WorkflowDatas }

Init ==
    /\ env \in ProcessEnvs
    /\ factory = EmptyDict
    /\ InitProcess

Next ==
    \E t \in Tasks :
        \/ \E u \in Users, r \in ResumeIds, v \in VersionIds : AnalyzeVersion(t, u, r, v)
        \/ \E u \in Users, v \in VersionIds, j \in JobDescriptionIds : CreateMatch(t, u, v, j)
        \/ \E u \in Users, v \in VersionIds, j \in JobDescriptionIds \cup {None} :
               GenerateEditSuggestions(t, u, v, j)
        \/ \E u \in Users, d \in FocusPeriods : GenerateInsights(t, u, d)
        \/ \E reply \in WorkflowReplies : HttpReply(t, reply)

Spec == Init /\ [][Next]_vars

\* --- the adapter alone, called directly, against every shape of answer
Caller == 1

OneMessage == << [role |-> "user", content |-> "Analyze this resume"] >>
TwoMessages == << [role |-> "system", content |-> "..."],
                  [role |-> "user", content |-> "Analyze this resume"] >>

AdapterKwargs ==
    { m @@ a @@ b @@ c :
        m \in {[messages |-> OneMessage], [messages |-> TwoMessages]},
        a \in Opt("model", {"", "gpt-4o"}),
        b \in Opt("metadata", {"{}", "{tool:x}"}),
        c \in {EmptyDict, [temperature |-> "0.7", max_tokens |-> 100]} }

ChoiceSet ==
    { a @@ b @@ c :
        a \in Opt("index", {5}),
        b \in Opt("message", { EmptyDict,
                               [role |-> "user"],
                               [content |-> "hello"],
                               [role |-> "user", content |-> JsonScores] }),
        c \in Opt("finish_reason", {"length"}) }

ChoiceDatas ==
    {EmptyDict} \cup { [choices |-> cs] : cs \in SeqsUpTo(ChoiceSet, MaxChoices) }

TopDatas ==
    { a @@ b @@ c @@ [choices |-> << [message |-> AssistantMessage(JsonScores)] >>] :
        a \in Opt("id", {"", None, "cmpl-1"}),
        b \in Opt("model", {"gpt-4o-2024"}),
        c \in Opt("usage", {"{total_tokens:9}"}) }

AdapterReplies ==
    TransportErrors
    \cup { Response(s, b) : s \in SuccessStatuses,
                            b \in {TextBody} \cup {JsonBody(d) : d \in TopDatas \cup ChoiceDatas} }
    \cup { Response(s, b) : s \in NonSuccessStatuses,
                            b \in {TextBody} \cup {JsonBody(d) : d \in TopDatas} }

InitAdapter ==
    /\ env \in ProcessEnvs
    /\ factory = EmptyDict
    /\ InitProcess

NextAdapter ==
    \/ \E kwargs \in AdapterKwargs : ChatCompletion(Caller, kwargs)
    \/ \E reply \in AdapterReplies : HttpReply(Caller, reply)

SpecAdapter == InitAdapter /\ [][NextAdapter]_vars

\* --- the adapter under every configuration: the environment, and a
\* --- provisioning factory that passes constructor arguments
ApiBases == {"", "/", "http://h", "http://h/", "http://h/v1//"}

ConfigEnvs ==
    { a @@ b @@ c :
        a \in Opt("AI_API_BASE", ApiBases),
        b \in Opt("AI_API_KEY", {"", "sk-env"}),
        c \in Opt("AI_MODEL_DEFAULT", {"", "env-model"}) }

FactoryKwargs ==
    { a @@ b @@ c @@ d :
        a \in Opt("api_base", {"", "http://a/v1", "http://a/v1/"}),
        b \in Opt("api_key", {"sk-arg"}),
        c \in Opt("default_model", {"arg-model"}),
        d \in Opt("timeout_seconds", {5}) }

ConfigKwargs ==
    { [messages |-> OneMessage] @@ a : a \in Opt("model", {"", "gpt-4o"}) }

ConfigReplies ==
    { [kind |-> "error", exc |-> "ReadTimeout"],
      Response(500, TextBody),
      Response(200, JsonBody([choices |-> << >>])),
      Response(200, JsonBody([model |-> "gpt-4o-2024", choices |-> << >>])) }

InitConfig ==
    /\ env \in ConfigEnvs
    /\ factory \in FactoryKwargs
    /\ InitProcess

NextConfig ==
    \/ \E kwargs \in ConfigKwargs : ChatCompletion(Caller, kwargs)
    \/ \E reply \in ConfigReplies : HttpReply(Caller, reply)

SpecConfig == InitConfig /\ [][NextConfig]_vars

\* --- the same under the repository's own factory, which passes nothing:
\* --- every setting comes from the environment
InitEnv ==
    /\ env \in ConfigEnvs
    /\ factory = EmptyDict
    /\ InitProcess

SpecEnv == InitEnv /\ [][NextConfig]_vars

(***************************************************************************)
(* The auth routes as steps of a handler.  signup awaits the database      *)
(* between its existence check and its insert, so it is two steps; login,  *)
(* logout and /auth/me read or write at one point each.  A handler that    *)
(* has answered takes the next request.                                    *)
(***************************************************************************)
Answer(t, op, args, response) ==
    call' = [call EXCEPT ![t] = [pc |-> "done", op |-> op, args |-> args,
                                 response |-> response]]

\* POST /auth/signup up to the await of create_user (router.py 41-63,
\* service.py 51-52)
SignupCheck(t, email, password) ==
    /\ call[t].pc = "idle"
    /\ LET args == [email |-> email, password |-> password]
       IN  IF user_exists(users, email)
           THEN Answer(t, "signup", args,
                       RouterResponse(Raised(DuplicateEmailException), 201, "signup_error"))
           ELSE call' = [call EXCEPT ![t] = [IdleCall EXCEPT !.pc = "insert",
                                                             !.op = "signup",
                                                             !.args = args]]
    /\ UNCHANGED << aiVars, req, drawn, users, token_blacklist, now, known >>

\* POST /auth/signup from create_user on (service.py 55-70); User.id is a
\* new uuid4
SignupInsert(t) ==
    /\ call[t].pc = "insert"
    /\ LET args == call[t].args
           created == create_user(users, uuid4(drawn), args.email,
                                  hash_password(args.password))
       IN  /\ drawn' = drawn + 1
           /\ users' = created.table
           /\ IF created.raised # NoException
              THEN /\ Answer(t, "signup", args,
                             RouterResponse(Raised(created.raised), 201, "signup_error"))
                   /\ known' = known
              ELSE /\ Answer(t, "signup", args,
                             RouterResponse(Returned([ id |-> created.user.id,
                                                       email |-> created.user.email,
                                                       created_at |-> now ]),
                                            201, "signup_error"))
                   /\ known' = [known EXCEPT !.passwords =
                                  (args.email :> args.password) @@ @]
    /\ UNCHANGED << aiVars, req, token_blacklist, now >>

\* POST /auth/login (router.py 83-114); the client keeps the token
Login(t, email, password) ==
    /\ call[t].pc = "idle"
    /\ LET outcome == login(users, email, password, now)
       IN  /\ Answer(t, "login", [email |-> email, password |-> password],
                     RouterResponse(outcome, 200, "login_error"))
           /\ known' = IF outcome.raised = NoException
                       THEN [known EXCEPT !.tokens = @ \cup {outcome.value.access_token}]
                       ELSE known
    /\ UNCHANGED << aiVars, req, drawn, users, token_blacklist, now >>

\* POST /auth/logout (router.py 124-155); parts is the Authorization header
Logout(t, parts) ==
    /\ call[t].pc = "idle"
    /\ LET extracted == extract_token_from_header(parts)
           done == logout(extracted.token, token_blacklist, now)
       IN  IF extracted.raised # NoException
           THEN /\ Answer(t, "logout", [authorization |-> parts],
                          RouterResponse(Raised(extracted.raised), 200, "logout_error"))
                /\ token_blacklist' = token_blacklist
           ELSE /\ Answer(t, "logout", [authorization |-> parts],
                          RouterResponse(done.outcome, 200, "logout_error"))
                /\ token_blacklist' = done.blacklist
    /\ UNCHANGED << aiVars, req, drawn, users, now, known >>

\* GET /auth/me (router.py 168-199)
Me(t, parts) ==
    /\ call[t].pc = "idle"
    /\ LET extracted == extract_token_from_header(parts)
           outcome == IF extracted.raised # NoException
                      THEN Raised(extracted.raised)
                      ELSE get_current_user(extracted.token, token_blacklist, now, users)
       IN  Answer(t, "me", [authorization |-> parts],
                  RouterResponse(outcome, 200, "auth_error"))
    /\ UNCHANGED << aiVars, req, drawn, users, token_blacklist, now, known >>

\* a route that depends on dependency.get_current_user
Protected(t, parts) ==
    /\ call[t].pc = "idle"
    /\ Answer(t, "protected", [authorization |-> parts],
              HandlerResponse(current_user_dependency(parts, token_blacklist, now)))
    /\ UNCHANGED << aiVars, req, drawn, users, token_blacklist, now, known >>

\* the response is sent; the handler is free for the next request
Respond(t) ==
    /\ call[t].pc = "done"
    /\ call' = [call EXCEPT ![t] = IdleCall]
    /\ UNCHANGED << aiVars, req, drawn, users, token_blacklist, now, known >>

\* time passes
Tick ==
    /\ now + ClockStep <= MaxClock
    /\ now' = now + ClockStep
    /\ UNCHANGED << aiVars, req, drawn, users, token_blacklist, known, call >>

\* --- the auth routes, against the requests clients can make
Emails == {"a@x.io", "old@x.io"}
Passwords == {"password0", "password1"}

\* the tokens a client may present: those login returned, the same claims
\* signed with another key, and a string that is no JWT
Presentable ==
    known.tokens
    \cup { jwt_encode(tok.claims, "another-key") : tok \in known.tokens }
    \cup { NotAJwt("invalid_token") }

\* Authorization headers, split at whitespace
AuthorizationHeaders ==
    { << "Bearer", tok >> : tok \in Presentable }
    \cup { << "bearer", tok >> : tok \in known.tokens }
    \cup { << "Bearer" >> }

InitAuth ==
    /\ env = EmptyDict
    /\ factory = EmptyDict
    /\ InitProcess

NextAuth ==
    \/ \E t \in Tasks :
        \/ \E email \in Emails, password \in Passwords : SignupCheck(t, email, password)
        \/ SignupInsert(t)
        \/ \E email \in Emails, password \in Passwords : Login(t, email, password)
        \/ \E parts \in AuthorizationHeaders : Logout(t, parts)
        \/ \E parts \in AuthorizationHeaders : Me(t, parts)
        \/ \E parts \in AuthorizationHeaders : Protected(t, parts)
        \/ Respond(t)
    \/ Tick

SpecAuth == InitAuth /\ [][NextAuth]_vars

(***************************************************************************)
(* The job application routes as steps of a handler.  create_application   *)
(* commits the application before it writes the first history entry, and   *)
(* update_status reads the application, commits its new status and then    *)
(* writes the history entry: each await between them lets another handler  *)
(* run.  The other methods read or write at one point.  datetime.now()     *)
(* returns a later reading every time it is called.                        *)
(***************************************************************************)
\* the state the CRUD routes leave alone
otherVars == << env, factory, cache, instances, task, posts, users,
                token_blacklist, known, call >>

\* a request is accepted at a later reading of the clock than the one before
Arrive ==
    /\ now < MaxStamp
    /\ now' = now + 1

\* the service method of handler t has returned or raised
Done(t, op, args, outcome) ==
    req' = [req EXCEPT ![t] = [IdleReq EXCEPT !.pc = "done", !.op = op,
                                              !.args = args, !.outcome = outcome]]

\* the handler goes on to a later step of the method
Goto(t, pc, op, args, local) ==
    req' = [req EXCEPT ![t] = [IdleReq EXCEPT !.pc = pc, !.op = op,
                                              !.args = args, !.local = local]]

\* create_application up to the commit of the application (service.py 68-84)
CreateApplication(t, user_id, payload) ==
    /\ req[t].pc = "idle"
    /\ Arrive
    /\ drawn < MaxCreated
    /\ LET status == Or(Get(payload, "status", None), PROSPECT)
           app == JobApplication(uuid4(drawn), NewApplicationData(payload, user_id),
                                 now + 1)
       IN  /\ store' = [store EXCEPT !.applications = @ \cup {app}]
           /\ Goto(t, "history", "create_application",
                   [user_id |-> user_id, application_id |-> app.id, payload |-> payload],
                   [app |-> app, from_status |-> None, to_status |-> status,
                    now |-> now + 1, note |-> "Application created"])
    /\ drawn' = drawn + 1
    /\ UNCHANGED otherVars

\* update_status's assignments to the loaded application (service.py 152-156)
StatusChange(app, payload, clock) ==
    [app EXCEPT !.status = payload.status,
                !.kanban_column = Or(payload.kanban_column, payload.status),
                !.last_status_change_at = clock]

\* update_status up to the flush (service.py 134-157)
UpdateStatusRead(t, user_id, application_id, payload) ==
    /\ req[t].pc = "idle"
    /\ Arrive
    /\ LET found == get_by_id_for_user(store.applications, application_id, user_id)
           args == [user_id |-> user_id, application_id |-> application_id,
                    payload |-> payload]
       IN  IF found = {}
           THEN Done(t, "update_status", args, Raise("AuthorizationException"))
           ELSE Goto(t, "commit", "update_status", args,
                     [loaded |-> TheOne(found),
                      app |-> StatusChange(TheOne(found), payload, now + 1),
                      from_status |-> TheOne(found).status,
                      to_status |-> payload.status,
                      now |-> now + 1, note |-> payload.note])
    /\ UNCHANGED << store, drawn, otherVars >>

\* update_status's flush and commit (service.py 157-158): the UPDATE of the
\* row the handler loaded, which sets the columns whose attribute differs
\* from the value that was loaded
UpdateStatusCommit(t) ==
    /\ req[t].pc = "commit"
    /\ LET app == req[t].local.app
           loaded == req[t].local.loaded
           changed == { column \in {"status", "kanban_column", "last_status_change_at"} :
                          app[column] # loaded[column] }
       IN  store' = [store EXCEPT !.applications =
                       { IF a.id = app.id
                         THEN [ column \in DOMAIN a |->
                                  IF column \in changed THEN app[column] ELSE a[column] ]
                         ELSE a : a \in @ }]
    /\ req' = [req EXCEPT ![t].pc = "history"]
    /\ UNCHANGED << drawn, now, otherVars >>

\* history_repo.create and commit, and the return (service.py 86-98, 160-169)
StatusHistoryInsert(t) ==
    /\ req[t].pc = "history"
    /\ LET l == req[t].local
       IN  /\ store' = [store EXCEPT !.status_history = @ \cup
                          { JobApplicationStatusHistory(l.app.id, l.from_status,
                                                        l.to_status, l.now, l.note) }]
           /\ Done(t, req[t].op, req[t].args, Return("object", l.app))
    /\ UNCHANGED << drawn, now, otherVars >>

\* get_application (service.py 100-111)
GetApplication(t, user_id, application_id) ==
    /\ req[t].pc = "idle"
    /\ Arrive
    /\ LET found == get_by_id_for_user(store.applications, application_id, user_id)
           args == [user_id |-> user_id, application_id |-> application_id]
       IN  IF found = {}
           THEN Done(t, "get_application", args, Raise("AuthorizationException"))
           ELSE Done(t, "get_application", args, Return("object", TheOne(found)))
    /\ UNCHANGED << store, drawn, otherVars >>

\* update_application (service.py 113-132); payload holds the fields set
UpdateApplication(t, user_id, application_id, payload) ==
    /\ req[t].pc = "idle"
    /\ Arrive
    /\ LET found == get_by_id_for_user(store.applications, application_id, user_id)
           args == [user_id |-> user_id, application_id |-> application_id,
                    payload |-> payload]
           app == [TheOne(found) EXCEPT !.notes = Get(payload, "notes", @)]
       IN  IF found = {}
           THEN /\ Done(t, "update_application", args, Raise("AuthorizationException"))
                /\ store' = store
           ELSE /\ Done(t, "update_application", args, Return("object", app))
                /\ store' = [store EXCEPT !.applications = (@ \ found) \cup {app}]
    /\ UNCHANGED << drawn, otherVars >>

\* JobApplicationRepository.soft_delete_for_user (repository.py 102-115)
soft_delete_for_user(applications, application_id, user_id) ==
    LET found == get_by_id_for_user(applications, application_id, user_id)
    IN  [ deleted |-> found # {},
          applications |-> (applications \ found)
                           \cup { [a EXCEPT !.is_deleted = TRUE] : a \in found } ]

\* delete_application (service.py 171-181)
DeleteApplication(t, user_id, application_id) ==
    /\ req[t].pc = "idle"
    /\ Arrive
    /\ LET soft == soft_delete_for_user(store.applications, application_id, user_id)
           args == [user_id |-> user_id, application_id |-> application_id]
       IN  /\ store' = [store EXCEPT !.applications = soft.applications]
           /\ IF soft.deleted
              THEN Done(t, "delete_application", args, Return("nothing", << >>))
              ELSE Done(t, "delete_application", args, Raise("AuthorizationException"))
    /\ UNCHANGED << drawn, otherVars >>

\* list_status_history (service.py 183-192)
ListStatusHistory(t, user_id, application_id) ==
    /\ req[t].pc = "idle"
    /\ Arrive
    /\ LET found == get_by_id_for_user(store.applications, application_id, user_id)
           args == [user_id |-> user_id, application_id |-> application_id]
       IN  IF found = {}
           THEN Done(t, "list_status_history", args, Raise("AuthorizationException"))
           ELSE Done(t, "list_status_history", args,
                     Return("list", list_for_application(store.status_history,
                                                         application_id)))
    /\ UNCHANGED << store, drawn, otherVars >>

\* list_applications (service.py 33-66), first page, no filter
ListApplications(t, user_id) ==
    /\ req[t].pc = "idle"
    /\ Arrive
    /\ Done(t, "list_applications", [user_id |-> user_id],
            Return("set", get_for_user(store.applications, user_id)))
    /\ UNCHANGED << store, drawn, otherVars >>

\* get_kanban_board (service.py 194-223)
GetKanbanBoard(t, user_id) ==
    /\ req[t].pc = "idle"
    /\ Arrive
    /\ Done(t, "get_kanban_board", [user_id |-> user_id],
            Return("board", get_kanban_board(store.applications, user_id)))
    /\ UNCHANGED << store, drawn, otherVars >>

\* GET /analytics/funnel: applications_funnel (analytics/service.py 29-58)
ApplicationsFunnel(t, user_id) ==
    /\ req[t].pc = "idle"
    /\ Arrive
    /\ Done(t, "applications_funnel", [user_id |-> user_id],
            Return("funnel", applications_funnel(store.applications, user_id)))
    /\ UNCHANGED << store, drawn, otherVars >>

\* the response is sent; the handler is free for the next request
Reply(t) ==
    /\ req[t].pc = "done"
    /\ req' = [req EXCEPT ![t] = IdleReq]
    /\ UNCHANGED << store, drawn, now, otherVars >>

\* --- the job application routes, against the requests clients can make
\* JobApplicationCreate with status unset, null and set
CreatePayloads == { EmptyDict, "status" :> None, "status" :> "applied" }

\* JobApplicationStatusUpdate: kanban_column unset, empty and a custom label
StatusUpdates ==
    [ status : {"interviewing", "rejected"},
      kanban_column : {None, "", "Phone screen"},
      note : {None} ]

\* JobApplicationUpdate
UpdatePayloads == { "notes" :> "edited" }

\* the ids a request may name
ApplicationIds == { a.id : a \in store.applications }

\* the provider's answer to the insights request: a body that is no JSON
JobsReplies == { Response(200, TextBody) }

InitJobs ==
    /\ env = ("AI_API_KEY" :> "sk-env")
    /\ factory = EmptyDict
    /\ InitProcess

NextJobs ==
    \/ \E u \in Users, d \in FocusPeriods : GenerateInsights(Caller, u, d)
    \/ \E reply \in JobsReplies : HttpReply(Caller, reply)
    \/ \E t \in Tasks :
        \/ \E u \in Users, p \in CreatePayloads : CreateApplication(t, u, p)
        \/ \E u \in Users, a \in ApplicationIds, p \in StatusUpdates :
               UpdateStatusRead(t, u, a, p)
        \/ UpdateStatusCommit(t)
        \/ StatusHistoryInsert(t)
        \/ \E u \in Users, a \in ApplicationIds : GetApplication(t, u, a)
        \/ \E u \in Users, a \in ApplicationIds, p \in UpdatePayloads :
               UpdateApplication(t, u, a, p)
        \/ \E u \in Users, a \in ApplicationIds : DeleteApplication(t, u, a)
        \/ \E u \in Users, a \in ApplicationIds : ListStatusHistory(t, u, a)
        \/ \E u \in Users : ListApplications(t, u)
        \/ \E u \in Users : GetKanbanBoard(t, u)
        \/ \E u \in Users : ApplicationsFunnel(t, u)
        \/ Reply(t)

SpecJobs == InitJobs /\ [][NextJobs]_vars

(***************************************************************************)
(* The resume and notification routes that name a record by id, each a     *)
(* lookup that includes the caller and, when it finds the row, one write.  *)
(***************************************************************************)
\* list_resumes (resume/service.py 40-48)
ListResumes(t, user_id) ==
    /\ req[t].pc = "idle"
    /\ Arrive
    /\ Done(t, "list_resumes", [user_id |-> user_id],
            Return("set", { r \in store.resumes :
                              r.user_id = user_id /\ ~r.is_deleted }))
    /\ UNCHANGED << store, drawn, otherVars >>

\* update_resume (resume/service.py 64-77); payload holds the fields set
UpdateResume(t, user_id, resume_id, payload) ==
    /\ req[t].pc = "idle"
    /\ Arrive
    /\ LET found == ResumeOwnedByUser(store, resume_id, user_id)
           args == [user_id |-> user_id, resume_id |-> resume_id, payload |-> payload]
           resume == [TheOne(found) EXCEPT !.title = Get(payload, "title", @)]
       IN  IF found = {}
           THEN /\ Done(t, "update_resume", args, Raise("AuthorizationException"))
                /\ store' = store
           ELSE /\ Done(t, "update_resume", args, Return("object", resume))
                /\ store' = [store EXCEPT !.resumes = (@ \ found) \cup {resume}]
    /\ UNCHANGED << drawn, otherVars >>

\* delete_resume (resume/service.py 79-83)
DeleteResume(t, user_id, resume_id) ==
    /\ req[t].pc = "idle"
    /\ Arrive
    /\ LET found == ResumeOwnedByUser(store, resume_id, user_id)
           args == [user_id |-> user_id, resume_id |-> resume_id]
       IN  IF found = {}
           THEN /\ Done(t, "delete_resume", args, Raise("AuthorizationException"))
                /\ store' = store
           ELSE /\ Done(t, "delete_resume", args, Return("nothing", << >>))
                /\ store' = [store EXCEPT !.resumes =
                               (@ \ found) \cup { [r EXCEPT !.is_deleted = TRUE] : r \in found }]
    /\ UNCHANGED << drawn, otherVars >>

\* list_versions (resume/service.py 85-98), as the set of rows
ListVersions(t, user_id, resume_id) ==
    /\ req[t].pc = "idle"
    /\ Arrive
    /\ LET found == ResumeOwnedByUser(store, resume_id, user_id)
           args == [user_id |-> user_id, resume_id |-> resume_id]
       IN  IF found = {}
           THEN Done(t, "list_versions", args, Raise("AuthorizationException"))
           ELSE Done(t, "list_versions", args,
                     Return("set", { v \in store.versions : v.resume_id = resume_id }))
    /\ UNCHANGED << store, drawn, otherVars >>

\* create_version (resume/service.py 100-126); a payload without a label
\* gets "v" and the number of versions the resume has, plus one
CreateVersion(t, user_id, resume_id, payload) ==
    /\ req[t].pc = "idle"
    /\ Arrive
    /\ LET found == ResumeOwnedByUser(store, resume_id, user_id)
           args == [user_id |-> user_id, resume_id |-> resume_id, payload |-> payload]
           count == Cardinality({ v \in store.versions : v.resume_id = resume_id })
           label == IF Truthy(Get(payload, "version_label", None))
                    THEN payload["version_label"]
                    ELSE "v" \o ToString(count + 1)
           version == [ id |-> uuid4(drawn), resume_id |-> TheOne(found).id,
                        version_label |-> label, content |-> payload["content"] ]
       IN  IF found = {}
           THEN /\ Done(t, "create_version", args, Raise("AuthorizationException"))
                /\ store' = store
                /\ drawn' = drawn
           ELSE /\ drawn < MaxCreated
                /\ Done(t, "create_version", args, Return("object", version))
                /\ store' = [store EXCEPT !.versions = @ \cup {version}]
                /\ drawn' = drawn + 1
    /\ UNCHANGED otherVars

\* list_notifications (notifications/service.py 66-73), as the set of rows
ListNotifications(t, user_id) ==
    /\ req[t].pc = "idle"
    /\ Arrive
    /\ Done(t, "list_notifications", [user_id |-> user_id],
            Return("set", { n \in store.notifications : n.user_id = user_id }))
    /\ UNCHANGED << store, drawn, otherVars >>

\* mark_as_read (notifications/service.py 75-100)
MarkAsRead(t, user_id, notification_id) ==
    /\ req[t].pc = "idle"
    /\ Arrive
    /\ LET found == { n \in store.notifications :
                        n.id = notification_id /\ n.user_id = user_id }
           args == [user_id |-> user_id, notification_id |-> notification_id]
           notification == [TheOne(found) EXCEPT !.read_at = << now + 1 >>]
       IN  IF found = {}
           THEN /\ Done(t, "mark_as_read", args, Raise("AuthorizationException"))
                /\ store' = store
           ELSE /\ Done(t, "mark_as_read", args, Return("object", notification))
                /\ store' = [store EXCEPT !.notifications =
                               (@ \ found) \cup {notification}]
    /\ UNCHANGED << drawn, otherVars >>

\* --- every route that names a record by id, called by either user
ResumeUpdates == { "title" :> "edited" }
VersionPayloads == { "content" :> "resume new" }
NotificationIds == { n.id : n \in store.notifications }

\* one job application of each user
TenantApplicationIds == { "a1", "a3" }
\* JobApplicationStatusUpdate with the column left out
TenantStatusUpdates ==
    { [status |-> "interviewing", kanban_column |-> None, note |-> None] }

InitTenant ==
    /\ env = EmptyDict
    /\ factory = EmptyDict
    /\ InitProcess

NextTenant ==
    \/ \E t \in Tasks :
        \/ \E u \in Users, a \in TenantApplicationIds : GetApplication(t, u, a)
        \/ \E u \in Users, a \in TenantApplicationIds, p \in UpdatePayloads :
               UpdateApplication(t, u, a, p)
        \/ \E u \in Users, a \in TenantApplicationIds, p \in TenantStatusUpdates :
               UpdateStatusRead(t, u, a, p)
        \/ UpdateStatusCommit(t)
        \/ StatusHistoryInsert(t)
        \/ \E u \in Users, a \in TenantApplicationIds : DeleteApplication(t, u, a)
        \/ \E u \in Users, a \in TenantApplicationIds : ListStatusHistory(t, u, a)
        \/ \E u \in Users : ListApplications(t, u)
        \/ \E u \in Users : GetKanbanBoard(t, u)
        \/ \E u \in Users : ListResumes(t, u)
        \/ \E u \in Users, r \in ResumeIds, p \in ResumeUpdates : UpdateResume(t, u, r, p)
        \/ \E u \in Users, r \in ResumeIds : DeleteResume(t, u, r)
        \/ \E u \in Users, r \in ResumeIds : ListVersions(t, u, r)
        \/ \E u \in Users, r \in ResumeIds, p \in VersionPayloads : CreateVersion(t, u, r, p)
        \/ \E u \in Users : ListNotifications(t, u)
        \/ \E u \in Users, n \in NotificationIds : MarkAsRead(t, u, n)
        \/ Reply(t)
    \/ \E u \in Users, r \in ResumeIds, v \in VersionIds : AnalyzeVersion(Caller, u, r, v)
    \/ \E u \in Users, v \in VersionIds, j \in JobDescriptionIds : CreateMatch(Caller, u, v, j)
    \/ \E u \in Users, v \in VersionIds, j \in JobDescriptionIds \cup {None} :
           GenerateEditSuggestions(Caller, u, v, j)

SpecTenant == InitTenant /\ [][NextTenant]_vars

(***************************************************************************)
(* The profile routes (services/user).  get_profile reads the profile and  *)
(* upserts an empty one when there is none; upsert_for_user reads it again *)
(* and then inserts or updates.  user_profiles.user_id is unique, so the   *)
(* second INSERT for a user fails at the flush and upsert_for_user turns   *)
(* the error into DatabaseException.                                       *)
(***************************************************************************)
\* UserProfile(**payload) once flushed (models.py 157-215)
UserProfile(id, data) ==
    [ id        |-> id,
      user_id   |-> data["user_id"],
      full_name |-> Get(data, "full_name", None),
      timezone  |-> Get(data, "timezone", None),
      email_notifications_enabled |-> Get(data, "email_notifications_enabled", TRUE) ]

\* UserProfileRepository.get_by_user_id (repository.py 18-26): the rows
get_by_user_id(user_profiles, user_id) ==
    { p \in user_profiles : p.user_id = user_id }

\* `for field, value in data.items(): setattr(profile, field, value)`
SetAttrs(profile, data) ==
    [ field \in DOMAIN profile |->
        IF field \in DOMAIN data THEN data[field] ELSE profile[field] ]

\* what the method hands back: the profile, or the preferences read off it
\* (service.py 38, 52-57, 66-71)
ProfileResponse(op, profile) ==
    IF op \in {"get_preferences", "update_preferences"}
    THEN [ profile_id |-> profile.id,
           timezone |-> profile.timezone,
           email_notifications_enabled |-> profile.email_notifications_enabled ]
    ELSE profile

\* get_profile and get_preferences up to the upsert (service.py 31-37, 50-51)
GetProfile(t, op, user_id) ==
    /\ req[t].pc = "idle"
    /\ Arrive
    /\ LET found == get_by_user_id(store.user_profiles, user_id)
           args == [user_id |-> user_id]
       IN  IF { u \in users : u.id = user_id } = {}
           THEN Done(t, op, args, Raise("UserNotFoundException"))
           ELSE IF found # {}
           THEN Done(t, op, args, Return("object", ProfileResponse(op, TheOne(found))))
           ELSE Goto(t, "upsert", op, args, [data |-> EmptyDict])
    /\ UNCHANGED << store, drawn, otherVars >>

\* upsert_profile and update_preferences up to the upsert (service.py 40-47,
\* 59-65); payload holds the fields set
UpsertProfile(t, op, user_id, payload) ==
    /\ req[t].pc = "idle"
    /\ Arrive
    /\ LET args == [user_id |-> user_id, payload |-> payload]
       IN  IF { u \in users : u.id = user_id } = {}
           THEN Done(t, op, args, Raise("UserNotFoundException"))
           ELSE Goto(t, "upsert", op, args, [data |-> payload])
    /\ UNCHANGED << store, drawn, otherVars >>

\* upsert_for_user's read, and the update when it finds the profile
\* (repository.py 38-50)
UpsertRead(t) ==
    /\ req[t].pc = "upsert"
    /\ LET found == get_by_user_id(store.user_profiles, req[t].args.user_id)
           profile == SetAttrs(TheOne(found), req[t].local.data)
       IN  IF found = {}
           THEN /\ req' = [req EXCEPT ![t].pc = "insert"]
                /\ store' = store
           ELSE /\ Done(t, req[t].op, req[t].args,
                        Return("object", ProfileResponse(req[t].op, profile)))
                /\ store' = [store EXCEPT !.user_profiles = (@ \ found) \cup {profile}]
    /\ UNCHANGED << drawn, now, otherVars >>

\* a faulty variant of the insert: user_id is not unique
ProfileInsert_NotUnique(t) ==
    /\ req[t].pc = "insert"
    /\ LET user_id == req[t].args.user_id
           profile == UserProfile(uuid4(drawn),
                                  ("user_id" :> user_id) @@ req[t].local.data)
       IN  /\ Done(t, req[t].op, req[t].args,
                   Return("object", ProfileResponse(req[t].op, profile)))
           /\ store' = [store EXCEPT !.user_profiles = @ \cup {profile}]
    /\ drawn' = drawn + 1
    /\ UNCHANGED << now, otherVars >>

\* upsert_for_user's create and commit (repository.py 41-53), under the
\* unique constraint on user_id (models.py 165-171)
ProfileInsert(t) ==
    /\ req[t].pc = "insert"
    /\ LET user_id == req[t].args.user_id
           profile == UserProfile(uuid4(drawn),
                                  ("user_id" :> user_id) @@ req[t].local.data)
       IN  IF get_by_user_id(store.user_profiles, user_id) # {}
           THEN /\ Done(t, req[t].op, req[t].args, Raise("DatabaseException"))
                /\ store' = store
           ELSE /\ Done(t, req[t].op, req[t].args,
                        Return("object", ProfileResponse(req[t].op, profile)))
                /\ store' = [store EXCEPT !.user_profiles = @ \cup {profile}]
    /\ drawn' = drawn + 1
    /\ UNCHANGED << now, otherVars >>

\* --- the profile routes, called for the registered user and for an id
\* that names no user
ProfileUsers == { u.id : u \in users } \cup { "uuid4-none" }

\* UserProfileCreate and UserProfileUpdate
ProfilePayloads ==
    { "full_name" :> "Jane Doe", "email_notifications_enabled" :> FALSE }

InitProfile ==
    /\ env = EmptyDict
    /\ factory = EmptyDict
    /\ InitProcess

NextProfile ==
    \E t \in Tasks :
        \/ \E op \in {"get_profile", "get_preferences"}, u \in ProfileUsers :
               GetProfile(t, op, u)
        \/ \E op \in {"upsert_profile", "update_preferences"}, u \in ProfileUsers,
              p \in ProfilePayloads : UpsertProfile(t, op, u, p)
        \/ UpsertRead(t)
        \/ ProfileInsert(t)
        \/ Reply(t)

SpecProfile == InitProfile /\ [][NextProfile]_vars

(***************************************************************************)
(* Wellbeing check-ins (services/wellbeing).  An Optional[int] of the      *)
(* payload is << n >> when it holds n and << >> when it is None; a field   *)
(* the request left out is no key of the dict.                             *)
(***************************************************************************)
\* `x >= n` for an Optional[int]: None is not ordered against an int
GreaterEqual(x, n) ==
    IF x = << >> THEN [raised |-> "TypeError", value |-> FALSE]
    ELSE [raised |-> None, value |-> x[1] >= n]

\* create_checkin's heuristic (wellbeing/service.py 26-35): `and` evaluates
\* its right operand only when the left one is true
burnout_risk_level(data) ==
    LET mood == Get(data, "mood_score", 3)
        stress == Get(data, "stress_level", << 3 >>)
        high == GreaterEqual(stress, 4)
        medium == GreaterEqual(stress, 3)
    IN  IF mood <= 2 /\ high.raised # None THEN [raised |-> high.raised, risk |-> None]
        ELSE IF mood <= 2 /\ high.value THEN [raised |-> None, risk |-> "high"]
        ELSE IF mood <= 3 /\ medium.raised # None
             THEN [raised |-> medium.raised, risk |-> None]
        ELSE IF mood <= 3 /\ medium.value THEN [raised |-> None, risk |-> "medium"]
        ELSE [raised |-> None, risk |-> "low"]

\* WellbeingCheckIn(user_id=..., burnout_risk_level=..., **data)
WellbeingCheckIn(id, user_id, risk, data) ==
    [ id |-> id, user_id |-> user_id,
      mood_score |-> data["mood_score"],
      stress_level |-> Get(data, "stress_level", << >>),
      burnout_risk_level |-> risk ]

\* create_checkin (wellbeing/service.py 20-46)
CreateCheckin(t, user_id, payload) ==
    /\ req[t].pc = "idle"
    /\ Arrive
    /\ drawn < MaxCreated
    /\ LET level == burnout_risk_level(payload)
           args == [user_id |-> user_id, payload |-> payload]
           checkin == WellbeingCheckIn(uuid4(drawn), user_id, level.risk, payload)
       IN  IF level.raised # None
           THEN /\ Done(t, "create_checkin", args, Raise(level.raised))
                /\ store' = store
                /\ drawn' = drawn
           ELSE /\ Done(t, "create_checkin", args, Return("object", checkin))
                /\ store' = [store EXCEPT !.wellbeing_checkins = @ \cup {checkin}]
                /\ drawn' = drawn + 1
    /\ UNCHANGED otherVars

\* list_checkins (wellbeing/service.py 48-55), as the set of rows
ListCheckins(t, user_id) ==
    /\ req[t].pc = "idle"
    /\ Arrive
    /\ Done(t, "list_checkins", [user_id |-> user_id],
            Return("set", { c \in store.wellbeing_checkins : c.user_id = user_id }))
    /\ UNCHANGED << store, drawn, otherVars >>

\* --- the check-in routes, against every payload the schema admits
\* (schemas.py 8-16): mood_score 1..5; stress_level 1..5, null or left out
Scores == 1..5

CheckinPayloads ==
    { "mood_score" :> m : m \in Scores }
    \cup { ("mood_score" :> m) @@ ("stress_level" :> s) :
             m \in Scores, s \in { << n >> : n \in Scores } \cup { << >> } }

InitWellbeing ==
    /\ env = EmptyDict
    /\ factory = EmptyDict
    /\ InitProcess

NextWellbeing ==
    \E t \in Tasks :
        \/ \E u \in Users, p \in CheckinPayloads : CreateCheckin(t, u, p)
        \/ \E u \in Users : ListCheckins(t, u)
        \/ Reply(t)

SpecWellbeing == InitWellbeing /\ [][NextWellbeing]_vars

(***************************************************************************)
(* Properties.                                                             *)
(***************************************************************************)
ClientOf(t) == instances[task[t].ai_client]

\* handler t has had a provider response with a 2xx status and a JSON body
Succeeded(t) ==
    /\ task[t].pc = "done"
    /\ task[t].reply.kind = "response"
    /\ task[t].reply.status_code \in 200..299
    /\ task[t].reply.body.is_json

\* the JSON object of that response
DataOf(t) == task[t].reply.body.data

\* the rows handler t has committed
RowsOf(t) == {row \in store.rows : row.call = t}

EndsWithSlash(s) == Len(s) > 0 /\ SubSeq(s, Len(s), Len(s)) = "/"

\* C1: on an adapter whose resolved api_key is empty, a chat_completion call
\* ends in the configuration error (RuntimeError) with no request handed to
\* the transport and no result.
C1_NoCredentialNoRequest ==
    \A t \in Tasks :
        (task[t].ai_client # 0 /\ ClientOf(t).api_key = "") =>
            /\ task[t].pc = "done"
            /\ task[t].outcome.raised = "RuntimeError"
            /\ posts[t] = 0
            /\ task[t].request = NoRequest
            /\ task[t].reply = NoReply
            /\ task[t].result = EmptyDict

C1_Witness ==
    \E t \in Tasks :
        /\ task[t].ai_client # 0
        /\ ClientOf(t).api_key = ""
        /\ task[t].pc = "done"
        /\ task[t].outcome.raised = "RuntimeError"
        /\ posts[t] = 0

\* C2: a provider response whose status is not 2xx makes chat_completion
\* raise, whatever the body holds; no result is returned.
C2_NonSuccessRaises ==
    \A t \in Tasks :
        ( /\ task[t].pc = "done"
          /\ task[t].reply.kind = "response"
          /\ task[t].reply.status_code \notin 200..299 ) =>
            /\ task[t].outcome.raised = "HTTPStatusError"
            /\ task[t].outcome.returns = "nothing"
            /\ task[t].result = EmptyDict

C2_Witness ==
    \E t \in Tasks :
        /\ task[t].pc = "done"
        /\ task[t].reply.kind = "response"
        /\ task[t].reply.status_code = 302
        /\ task[t].reply.body.is_json
        /\ "choices" \in DOMAIN task[t].reply.body.data
        /\ task[t].outcome.raised = "HTTPStatusError"

\* handler t is an AI workflow whose chat_completion returned a result whose
\* first choice carries content json.loads rejects
FirstChoiceUnparseable(t) ==
    /\ Succeeded(t)
    /\ task[t].wf \in AIWorkflows
    /\ Len(task[t].result.choices) > 0
    /\ task[t].result.choices[1].message.content \in {NotJson, "", None}

ReturnsEmptyList(t) ==
    /\ task[t].outcome.raised = None
    /\ task[t].outcome.returns = "list"
    /\ task[t].outcome.value = << >>

CallFailure(t) ==
    IF ClientOf(t).api_key = "" THEN "RuntimeError"
    ELSE IF task[t].reply.kind = "error" THEN task[t].reply.exc
    ELSE IF task[t].reply.status_code \notin 200..299 THEN "HTTPStatusError"
    ELSE IF ~task[t].reply.body.is_json THEN "JSONDecodeError"
    ELSE None

\* C4: when chat_completion raises (no credential, network failure or
\* timeout, non-2xx status), the workflow lets that same exception out,
\* returns nothing and commits no row.
C4_CallErrorsPropagate ==
    \A t \in Tasks :
        ( /\ task[t].pc = "done"
          /\ task[t].wf \in AIWorkflows
          /\ task[t].ai_client # 0
          /\ CallFailure(t) # None ) =>
            /\ task[t].outcome.raised = CallFailure(t)
            /\ task[t].outcome.returns = "nothing"
            /\ RowsOf(t) = {}

C4_Witness ==
    /\ \E t \in Tasks :
         /\ task[t].pc = "done"
         /\ task[t].wf = "generate_insights"
         /\ task[t].reply.kind = "response"
         /\ task[t].reply.status_code = 500
         /\ task[t].outcome.raised = "HTTPStatusError"
    /\ \E t \in Tasks :
         /\ task[t].pc = "done"
         /\ task[t].wf = "analyze_version"
         /\ task[t].reply.kind = "error"
         /\ task[t].reply.exc = "ReadTimeout"
         /\ task[t].outcome.raised = "ReadTimeout"

\* C5: a successful result with no choices never ends a workflow in an
\* IndexError.
C5_EmptyChoicesNoIndexError ==
    \A t \in Tasks :
        ( /\ Succeeded(t)
          /\ task[t].wf \in AIWorkflows
          /\ Len(task[t].result.choices) = 0 ) =>
            task[t].outcome.raised # "IndexError"

\* C6: no adapter exists before the first get_ai_client call, exactly one
\* from then on, and every handler that asked holds that one instance.
C6_OneAdapter ==
    /\ Len(instances) = (IF \E t \in Tasks : task[t].ai_client # 0 THEN 1 ELSE 0)
    /\ \A t \in Tasks : task[t].ai_client \in {0, 1}
    /\ cache = (IF Len(instances) = 0 THEN << >> ELSE << 1 >>)

C6_Witness ==
    /\ Len(instances) = 1
    /\ \A t \in Tasks : task[t].ai_client = 1
    /\ \E t \in Tasks : task[t].pc = "await"

\* the role the provider gave choice i, "assistant" if it gave none
ProviderRole(choice) ==
    IF "message" \in DOMAIN choice /\ "role" \in DOMAIN choice.message
    THEN choice.message.role
    ELSE "assistant"

\* C7: a successful response with N choices gives a result with N choices,
\* choice i carrying the role of the provider's i-th choice, "assistant"
\* where the provider left the role out.
C7_ChoicesAndRoles ==
    \A t \in Tasks :
        (Succeeded(t) /\ Len(task[t].kwargs.messages) > 0) =>
            LET raw == IF "choices" \in DOMAIN DataOf(t) THEN DataOf(t).choices ELSE << >>
            IN  /\ task[t].outcome.raised = None
                /\ Len(task[t].result.choices) = Len(raw)
                /\ \A i \in 1..Len(raw) :
                     task[t].result.choices[i].message.role = ProviderRole(raw[i])

C7_Witness ==
    \E t \in Tasks :
        /\ Succeeded(t)
        /\ "choices" \in DOMAIN DataOf(t)
        /\ Len(DataOf(t).choices) = 2
        /\ ProviderRole(DataOf(t).choices[1]) = "user"
        /\ "message" \notin DOMAIN DataOf(t).choices[2]
        /\ Len(task[t].result.choices) = 2
        /\ task[t].result.choices[2].message.role = "assistant"

\* handler t got a result for a response that carried no id
ResultWithoutProviderId(t) == Succeeded(t) /\ "id" \notin DOMAIN DataOf(t)

\* C8: a result made from a response without id has a non-empty id, and two
\* such results of distinct calls have different ids.
C8_GeneratedIds ==
    \A t \in Tasks :
        ResultWithoutProviderId(t) =>
            /\ task[t].result.id \notin {"", None}
            /\ \A u \in Tasks \ {t} :
                 ResultWithoutProviderId(u) => task[u].result.id # task[t].result.id

C8_Witness ==
    \E t \in Tasks, u \in Tasks :
        /\ t # u
        /\ ResultWithoutProviderId(t)
        /\ ResultWithoutProviderId(u)
        /\ task[t].result.id # task[u].result.id

\* C9: when the response carries no model, the result's model is the model
\* the caller asked for, else the adapter's default, and is never empty.
C9_ModelFallback ==
    \A t \in Tasks :
        (Succeeded(t) /\ "model" \notin DOMAIN DataOf(t)) =>
            LET requested == IF "model" \in DOMAIN task[t].kwargs
                             THEN task[t].kwargs.model ELSE None
            IN  /\ task[t].result.model =
                     (IF requested \notin {"", None} THEN requested
                      ELSE ClientOf(t).default_model)
                /\ task[t].result.model \notin {"", None}

\* C10: an adapter whose api_base is B or B followed by one slash, B not
\* ending in a slash, posts to B + "/chat/completions".
C10_TrailingSlash ==
    \A t \in Tasks :
        task[t].request # NoRequest =>
            LET b == ClientOf(t).api_base
                B == IF EndsWithSlash(b) THEN SubSeq(b, 1, Len(b) - 1) ELSE b
            IN  ~EndsWithSlash(B) => task[t].request.url = B \o "/chat/completions"

C10_Witness ==
    \E t \in Tasks :
        /\ task[t].request # NoRequest
        /\ ClientOf(t).api_base = "http://h/"
        /\ task[t].request.url = "http://h/chat/completions"

\* the argument handler t passed under `name`, None if it passed none
Passed(t, name) ==
    IF name \in DOMAIN task[t].kwargs THEN task[t].kwargs[name] ELSE None

\* C11: the payload of every request handed to the transport carries the
\* supplied messages as role/content pairs, as many and in the same order,
\* the requested model (the adapter's default when none was requested), and
\* the caller's temperature and max_tokens.
C11_PayloadFromArguments ==
    \A t \in Tasks :
        task[t].request # NoRequest =>
            LET sent == task[t].request.json
                supplied == task[t].kwargs.messages
            IN  /\ Len(sent.messages) = Len(supplied)
                /\ \A i \in 1..Len(supplied) :
                     /\ DOMAIN sent.messages[i] = {"role", "content"}
                     /\ sent.messages[i].role = supplied[i].role
                     /\ sent.messages[i].content = supplied[i].content
                /\ sent.model = (IF Passed(t, "model") \notin {"", None}
                                 THEN Passed(t, "model")
                                 ELSE ClientOf(t).default_model)
                /\ "temperature" \in DOMAIN task[t].kwargs =>
                     sent.temperature = task[t].kwargs.temperature
                /\ "max_tokens" \in DOMAIN task[t].kwargs =>
                     sent.max_tokens = task[t].kwargs.max_tokens

C11_Witness ==
    \E t \in Tasks :
        /\ task[t].request # NoRequest
        /\ Len(task[t].kwargs.messages) = 2
        /\ task[t].request.json.messages[1].role = "system"
        /\ task[t].request.json.messages[2].role = "user"
        /\ Passed(t, "model") = "gpt-4o"
        /\ task[t].request.json.model = "gpt-4o"
        /\ task[t].request.json.temperature = "0.7"
        /\ task[t].request.json.max_tokens = 100

\* C12 as stated: the payload has a metadata field exactly when the caller
\* passed a metadata mapping, and the field then equals that mapping.
C12_MetadataIffProvided ==
    \A t \in Tasks :
        task[t].request # NoRequest =>
            /\ ("metadata" \in DOMAIN task[t].request.json) <=> (Passed(t, "metadata") # None)
            /\ "metadata" \in DOMAIN task[t].request.json =>
                 task[t].request.json.metadata = Passed(t, "metadata")

\* C12, amended: the payload has a metadata field exactly when the caller
\* passed a non-empty metadata mapping, and the field then equals that
\* mapping; with no mapping or an empty one the payload has no such field.
C12_MetadataIffNonEmpty ==
    \A t \in Tasks :
        task[t].request # NoRequest =>
            /\ ("metadata" \in DOMAIN task[t].request.json)
                   <=> (Passed(t, "metadata") \notin {None, "{}"})
            /\ "metadata" \in DOMAIN task[t].request.json =>
                 task[t].request.json.metadata = Passed(t, "metadata")

C12_Witness ==
    \E t \in Tasks :
        /\ task[t].request # NoRequest
        /\ Passed(t, "metadata") = "{tool:x}"
        /\ task[t].request.json.metadata = "{tool:x}"

\* the content the provider gave a choice, "" if it gave none
ProviderContent(choice) ==
    IF "message" \in DOMAIN choice /\ "content" \in DOMAIN choice.message
    THEN choice.message.content
    ELSE ""

\* C13: on a successful response the i-th provider choice becomes the i-th
\* result choice: its index is the provider's, or the zero-based position
\* when the provider gave none; its content is the provider's, or "" when
\* the provider gave none; finish_reason and usage are the provider's, None
\* when absent.
C13_ChoiceMapping ==
    \A t \in Tasks :
        (Succeeded(t) /\ Len(task[t].kwargs.messages) > 0) =>
            LET raw == IF "choices" \in DOMAIN DataOf(t) THEN DataOf(t).choices ELSE << >>
                got == task[t].result.choices
            IN  /\ Len(got) = Len(raw)
                /\ \A i \in 1..Len(raw) :
                     /\ got[i].index = (IF "index" \in DOMAIN raw[i]
                                        THEN raw[i].index ELSE i - 1)
                     /\ got[i].message.content = ProviderContent(raw[i])
                     /\ got[i].finish_reason = (IF "finish_reason" \in DOMAIN raw[i]
                                                THEN raw[i].finish_reason ELSE None)
                /\ task[t].result.usage = (IF "usage" \in DOMAIN DataOf(t)
                                           THEN DataOf(t).usage ELSE None)

C13_Witness ==
    \E t \in Tasks :
        /\ Succeeded(t)
        /\ "choices" \in DOMAIN DataOf(t)
        /\ Len(DataOf(t).choices) = 2
        /\ DOMAIN DataOf(t).choices[1] = {"index", "message", "finish_reason"}
        /\ DOMAIN DataOf(t).choices[2] = {"message"}
        /\ "content" \notin DOMAIN DataOf(t).choices[2].message
        /\ task[t].result.choices[1].index = 5
        /\ task[t].result.choices[1].finish_reason = "length"
        /\ task[t].result.choices[2].index = 1
        /\ task[t].result.choices[2].message.content = ""
        /\ task[t].result.choices[2].finish_reason = None
        /\ task[t].result.usage = None

\* the failure of the request of handler t, None if it got a 2xx response
RequestFailure(t) ==
    IF task[t].reply.kind = "error" THEN task[t].reply.exc
    ELSE IF task[t].reply.status_code \notin 200..299 THEN "HTTPStatusError"
    ELSE None

\* C14: a chat_completion call hands the transport at most one request; when
\* that request fails (network failure, timeout, non-2xx status) the call
\* raises that failure to its caller, having sent the one request only.
C14_OneRequestNoRetry ==
    \A t \in Tasks :
        /\ posts[t] <= 1
        /\ (task[t].pc = "done" /\ task[t].reply # NoReply /\ RequestFailure(t) # None) =>
             /\ posts[t] = 1
             /\ task[t].outcome.raised = RequestFailure(t)
             /\ task[t].outcome.returns = "nothing"
             /\ task[t].result = EmptyDict

C14_Witness ==
    \E t \in Tasks :
        /\ task[t].pc = "done"
        /\ task[t].reply = [kind |-> "error", exc |-> "ReadTimeout"]
        /\ task[t].outcome.raised = "ReadTimeout"
        /\ posts[t] = 1

\* the constructor argument `name` of the factory, None if it passes none
Argument(name) == IF name \in DOMAIN factory THEN factory[name] ELSE None

\* what the precedence argument, then environment, then `fallback` gives
Resolved(name, variable, fallback) ==
    IF Argument(name) \notin {"", None} THEN Argument(name)
    ELSE IF variable \in DOMAIN env THEN env[variable]
    ELSE fallback

\* a setting nothing configured
Unconfigured == {"", None}

\* C15 as stated: each of the three settings is the constructor argument,
\* else the environment value; only the default model has a hardcoded
\* fallback, the base URL and the credential stay unconfigured when neither
\* an argument nor the environment supplies them.
C15_FallbackForModelOnly ==
    \A i \in 1..Len(instances) :
        /\ (Argument("api_base") \in Unconfigured /\ "AI_API_BASE" \notin DOMAIN env)
              => instances[i].api_base \in Unconfigured
        /\ (Argument("api_key") \in Unconfigured /\ "AI_API_KEY" \notin DOMAIN env)
              => instances[i].api_key \in Unconfigured
        /\ instances[i].api_base \notin Unconfigured
              => instances[i].api_base = Resolved("api_base", "AI_API_BASE", "")
        /\ instances[i].api_key = Resolved("api_key", "AI_API_KEY", "")
        /\ instances[i].default_model =
              Resolved("default_model", "AI_MODEL_DEFAULT", DefaultModel)

\* C15, amended: each of the three settings is the non-empty constructor
\* argument, else the value of its environment variable when that is set,
\* else a hardcoded fallback for the base URL and for the default model;
\* the credential has no fallback and is empty when neither supplies it.
C15_ResolutionOrder ==
    \A i \in 1..Len(instances) :
        /\ instances[i].api_base = Resolved("api_base", "AI_API_BASE", DefaultApiBase)
        /\ instances[i].api_key = Resolved("api_key", "AI_API_KEY", "")
        /\ instances[i].default_model =
              Resolved("default_model", "AI_MODEL_DEFAULT", DefaultModel)
        /\ (Argument("api_key") \in Unconfigured /\ "AI_API_KEY" \notin DOMAIN env)
              => instances[i].api_key = ""

C15_Witness ==
    /\ Len(instances) = 1
    /\ Argument("api_key") = "sk-arg"
    /\ "AI_API_KEY" \in DOMAIN env /\ env["AI_API_KEY"] = "sk-env"
    /\ instances[1].api_key = "sk-arg"
    /\ Argument("api_base") = ""
    /\ "AI_API_BASE" \notin DOMAIN env
    /\ instances[1].api_base = DefaultApiBase
    /\ Argument("default_model") = None
    /\ "AI_MODEL_DEFAULT" \in DOMAIN env /\ env["AI_MODEL_DEFAULT"] = "env-model"
    /\ instances[1].default_model = "env-model"

\* the result of handler t without its id when chat_completion generated it
ResultOfResponse(t) ==
    [ id      |-> IF NeedsUuid(DataOf(t)) THEN "generated" ELSE task[t].result.id,
      model   |-> task[t].result.model,
      choices |-> task[t].result.choices,
      usage   |-> task[t].result.usage ]

\* two calls that passed the same arguments have sent the same request and,
\* given the same provider response, got the same result
SameInSameOut ==
    \A t \in Tasks, u \in Tasks :
        (task[t].request # NoRequest /\ task[u].request # NoRequest
           /\ task[t].kwargs = task[u].kwargs) =>
            /\ task[t].request = task[u].request
            /\ (Succeeded(t) /\ Succeeded(u) /\ task[t].reply = task[u].reply) =>
                 ResultOfResponse(t) = ResultOfResponse(u)

\* C16: no step changes an adapter that exists (api_base, api_key,
\* default_model and the HTTP client's settings stay as constructed), however
\* the calls on the shared instance interleave; hence calls with equal
\* arguments send equal requests and, given equal responses, return equal
\* results.
C16_AdapterStateFixed ==
    /\ [][ /\ Len(instances') >= Len(instances)
           /\ \A i \in 1..Len(instances) : instances'[i] = instances[i] ]_vars
    /\ []SameInSameOut

C16_Witness ==
    \E t \in Tasks, u \in Tasks :
        /\ t # u
        /\ task[t].ai_client = 1 /\ task[u].ai_client = 1
        /\ Succeeded(t) /\ task[t].outcome.raised = None
        /\ task[u].pc = "await"
        /\ task[u].kwargs = task[t].kwargs
        /\ task[u].request = task[t].request
        /\ ClientOf(u) = instances[1]

\* handler t takes a request of route op in this step
Begins(t, op) == call[t].pc = "idle" /\ call'[t].pc # "idle" /\ call'[t].op = op

\* handler t answers a request of route op in this step, having read the
\* state the step starts in
Answers(t, op) == call[t].pc = "idle" /\ call'[t].pc = "done" /\ call'[t].op = op

\* C17: a signup that begins when its email belongs to a stored user is
\* answered 409 with detail.error "email_exists" and leaves the users as
\* they are; in every state no two users share an email.
C17_DuplicateSignupRejected ==
    /\ [][ \A t \in Tasks :
             (Begins(t, "signup") /\ \E u \in users : u.email = call'[t].args.email) =>
                 /\ call'[t].pc = "done"
                 /\ call'[t].response.status_code = 409
                 /\ call'[t].response.body.detail.error = "email_exists"
                 /\ users' = users ]_vars
    /\ [](\A u \in users, v \in users : u.email = v.email => u = v)

C17_Witness ==
    \E t \in Tasks :
        /\ call[t].pc = "done"
        /\ call[t].op = "signup"
        /\ call[t].args.email = "a@x.io"
        /\ call[t].response.status_code = 409
        /\ Cardinality({u \in users : u.email = "a@x.io"}) = 1

\* the credentials are those of a stored active user: the password is the
\* one given at signup
GoodCredentials(email, password) ==
    /\ \E u \in users : u.email = email /\ u.is_active
    /\ email \in DOMAIN known.passwords
    /\ known.passwords[email] = password

\* C18: a login is answered 200 with an access token, token_type "bearer"
\* and the user's email exactly when the email is a stored active user's and
\* the password is the one given at signup; every other login is answered
\* 401 with detail.error "invalid_credentials" and no token.
C18_LoginIffGoodCredentials ==
    [][ \A t \in Tasks :
          Answers(t, "login") =>
              LET args == call'[t].args
                  response == call'[t].response
              IN  IF GoodCredentials(args.email, args.password)
                  THEN /\ response.status_code = 200
                       /\ "access_token" \in DOMAIN response.body
                       /\ response.body.token_type = "bearer"
                       /\ response.body.user.email = args.email
                       /\ known'.tokens = known.tokens \cup {response.body.access_token}
                  ELSE /\ response.status_code = 401
                       /\ response.body.detail.error = "invalid_credentials"
                       /\ "access_token" \notin DOMAIN response.body
                       /\ known'.tokens = known.tokens ]_vars

C18_Witness ==
    \E t \in Tasks, u \in Tasks :
        /\ call[t].pc = "done" /\ call[t].op = "login"
        /\ call[t].response.status_code = 200
        /\ call[t].response.body.access_token \in known.tokens
        /\ call[u].pc = "done" /\ call[u].op = "login"
        /\ call[u].args.email = call[t].args.email
        /\ call[u].args.password # call[t].args.password
        /\ call[u].response.status_code = 401

\* the token of a well-formed Authorization header
BearerToken(parts) == parts[2]
WellFormed(parts) == Len(parts) = 2 /\ lower(parts[1]) = "bearer"

\* C19: no step takes a token off the blacklist, and every request that
\* presents a token a logout has blacklisted (GET /auth/me, another logout,
\* a route behind get_current_user) is answered 401.
C19_LogoutRevokesForGood ==
    /\ [][token_blacklist \subseteq token_blacklist']_vars
    /\ [][ \A t \in Tasks :
             \A op \in {"me", "logout", "protected"} :
                 ( /\ Answers(t, op)
                   /\ WellFormed(call'[t].args.authorization)
                   /\ BearerToken(call'[t].args.authorization) \in token_blacklist ) =>
                     call'[t].response.status_code = 401 ]_vars

\* the user a token names
TokenUser(tok) == {u \in users : u.id = tok.claims.user_id}

\* C20: GET /auth/me with a token login returned, unexpired, not revoked and
\* of a user still stored, is answered 200 with that user's id and email;
\* with a token the service did not issue (no JWT, or signed with another
\* key) it is answered 401.
C20_MeAcceptsIssuedTokensOnly ==
    [][ \A t \in Tasks :
          (Answers(t, "me") /\ WellFormed(call'[t].args.authorization)) =>
              LET tok == BearerToken(call'[t].args.authorization)
                  response == call'[t].response
              IN  /\ ( /\ tok \in known.tokens
                       /\ tok.claims.exp >= now
                       /\ tok \notin token_blacklist
                       /\ TokenUser(tok) # {} ) =>
                         /\ response.status_code = 200
                         /\ response.body.id = tok.claims.user_id
                         /\ \E u \in TokenUser(tok) : response.body.email = u.email
                  /\ ("claims" \notin DOMAIN tok \/ tok.signed_with # JWT_SECRET_KEY) =>
                         response.status_code = 401 ]_vars

\* no create_application or update_status call on the application is between
\* its steps
Quiescent(application_id) ==
    \A t \in Tasks :
        req[t].pc \in {"commit", "history"} => req[t].local.app.id # application_id

\* the application's history, oldest entry first, leads from None to its
\* current status without a gap
IsChain(app) ==
    LET h == list_for_application(store.status_history, app.id)
    IN  /\ Len(h) >= 1
        /\ h[1].from_status = None
        /\ \A i \in 2..Len(h) : h[i].from_status = h[i - 1].to_status
        /\ h[Len(h)].to_status = app.status

OwnersNamed(args) ==
    LET named(key) == IF key \in DOMAIN args THEN {args[key]} ELSE {}
    IN  { a.user_id : a \in { x \in store.applications :
                                x.id \in named("application_id") } }
        \cup { r.user_id : r \in { x \in store.resumes : x.id \in named("resume_id") } }
        \cup { r.user_id : r \in { x \in store.resumes :
                 \E v \in store.versions :
                     v.id \in named("version_id") /\ v.resume_id = x.id } }
        \cup { j.user_id : j \in { x \in store.job_descriptions :
                                     x.id \in named("job_description_id") } }
        \cup { n.user_id : n \in { x \in store.notifications :
                                     x.id \in named("notification_id") } }

\* the call names a record of another user
Foreign(args) == \E owner \in OwnersNamed(args) : owner # args.user_id

\* the owners of the records a list operation returned to handler t
OwnersReturned(t) ==
    LET value == req[t].outcome.value
        op == req[t].op
    IN  CASE op \in {"list_applications", "list_resumes", "list_notifications"} ->
               { r.user_id : r \in value }
          [] op = "list_versions" ->
               { r.user_id : r \in { x \in store.resumes :
                                       \E v \in value : v.resume_id = x.id } }
          [] op = "list_status_history" ->
               { a.user_id : a \in { x \in store.applications :
                   \E i \in 1..Len(value) : value[i].application_id = x.id } }
          [] op = "get_kanban_board" ->
               { a.user_id : a \in UNION { value[i].applications :
                                             i \in 1..Len(value) } }
          [] OTHER -> {}

Deleted == { a \in store.applications : a.is_deleted }

\* handler t takes up the CRUD request op in this step
Takes(t, op) == req[t].pc = "idle" /\ req'[t].pc # "idle" /\ req'[t].op = op

\* the deleted application stays in the table, deleted
C23_DeleteIsPermanent ==
    \A a \in Deleted : \E b \in store'.applications : b.id = a.id /\ b.is_deleted

\* a read or write of the owner that names a deleted application is refused
C23_DeletedIsRefused ==
    \A t \in Tasks :
        \A op \in {"get_application", "update_application", "update_status",
                   "list_status_history", "delete_application"} :
            (Takes(t, op) /\ req'[t].args.application_id \in {a.id : a \in Deleted})
                => /\ req'[t].pc = "done"
                   /\ req'[t].outcome.raised = "AuthorizationException"

\* the lists, the board and the funnel leave deleted applications out
C23_DeletedIsOmitted ==
    \A t \in Tasks :
        LET value == req'[t].outcome.value
            user_id == req'[t].args.user_id
            kept == { a \in store.applications : a.user_id = user_id /\ ~a.is_deleted }
        IN  /\ Takes(t, "list_applications") => value \cap Deleted = {}
            /\ Takes(t, "get_kanban_board")
                 => \A i \in 1..Len(value) : value[i].applications \cap Deleted = {}
            /\ Takes(t, "applications_funnel")
                 => /\ value.total = Cardinality(kept)
                    /\ \A i \in 1..Len(JobApplicationStatusEnum) :
                         value.stages[i] =
                           Cardinality({ a \in kept :
                                           a.status = JobApplicationStatusEnum[i] })

\* the rejections generate_insights sends to the provider are those of the
\* applications that are not deleted
C23_DeletedIsNotSent ==
    \A t \in Tasks :
        (task[t].pc = "idle" /\ task'[t].pc # "idle"
           /\ task'[t].wf = "generate_insights" /\ task'[t].kwargs # EmptyDict)
            => task'[t].kwargs =
                 InsightsKwargs(NewestFirst(
                     RejectedSince(store, task'[t].args.user_id,
                                   task'[t].args.focus_period_days) \ Deleted))

\* C23: soft delete is permanent and total.  A deleted application stays in
\* the table with is_deleted set; get_application, update_application,
\* update_status, list_status_history and delete_application that name it
\* afterwards raise AuthorizationException; list_applications,
\* get_kanban_board and applications_funnel leave it out; and
\* generate_insights does not send it to the provider among the rejections.
C23_SoftDeleteTotal ==
    [][ /\ C23_DeleteIsPermanent
        /\ C23_DeletedIsRefused
        /\ C23_DeletedIsOmitted
        /\ C23_DeletedIsNotSent ]_vars

\* the same without generate_insights
C23_ExceptInsights ==
    [][ /\ C23_DeleteIsPermanent
        /\ C23_DeletedIsRefused
        /\ C23_DeletedIsOmitted ]_vars

\* the version the call names does not belong to the resume it names
VersionOfAnotherResume(args) ==
    \E v \in store.versions : v.id = args.version_id /\ v.resume_id # args.resume_id

\* C24: analyze_version analyzes only a version of the resume that resume_id
\* names.  When version_id names a version of another resume, the call fails,
\* makes no chat_completion call and stores no analysis.
C24_VersionOfNamedResume ==
    \A t \in Tasks :
        (task[t].wf = "analyze_version" /\ VersionOfAnotherResume(task[t].args))
            => /\ task[t].pc = "done"
               /\ task[t].outcome.raised # None
               /\ task[t].kwargs = EmptyDict
               /\ posts[t] = 0
               /\ task[t].outcome.rows = {}

\* handler t takes up the AI workflow wf in this step
Starts(t, wf) == task[t].pc = "idle" /\ task'[t].pc # "idle" /\ task'[t].wf = wf

\* the user of the call has no REJECTED application in the focus period
NothingToAnalyze(args) ==
    RejectedSince(store, args.user_id, args.focus_period_days) = {}

\* C25: generate_insights short-circuits when the user has no REJECTED
\* application created within the last focus_period_days: it returns an
\* empty list, whatever the credential, without obtaining the AI client or
\* calling chat_completion, and persists nothing.
C25_ShortCircuit ==
    [][ \A t \in Tasks :
          (Starts(t, "generate_insights") /\ NothingToAnalyze(task'[t].args))
              => /\ task'[t].pc = "done"
                 /\ task'[t].outcome = ReturnList(<< >>, {})
                 /\ task'[t].ai_client = 0
                 /\ task'[t].kwargs = EmptyDict
                 /\ task'[t].request = NoRequest
                 /\ cache' = cache
                 /\ instances' = instances
                 /\ posts' = posts
                 /\ store' = store ]_vars

\* a user without rejections was given the empty list while no credential
\* is configured
C25_Witness ==
    \E t \in Tasks :
        /\ task[t].wf = "generate_insights"
        /\ task[t].pc = "done"
        /\ NothingToAnalyze(task[t].args)
        /\ ~Truthy(Get(env, "AI_API_KEY", None))
        /\ task[t].outcome = ReturnList(<< >>, {})

\* one of the ownership lookups of the call finds nothing
LookupFails(wf, args) ==
    CASE wf = "analyze_version" ->
           \/ ResumeOwnedByUser(store, args.resume_id, args.user_id) = {}
           \/ VersionOwnedByUser(store, args.version_id, args.user_id) = {}
      [] wf = "create_match" ->
           \/ VersionOwnedByUser(store, args.version_id, args.user_id) = {}
           \/ JobDescriptionOwnedByUser(store, args.job_description_id, args.user_id) = {}
      [] wf = "generate_edit_suggestions" ->
           \/ VersionOwnedByUser(store, args.version_id, args.user_id) = {}
           \/ /\ Truthy(args.job_description_id)
              /\ JobDescriptionOwnedByUser(store, args.job_description_id,
                                           args.user_id) = {}
      [] OTHER -> FALSE

\* C26: in analyze_version, create_match and generate_edit_suggestions,
\* chat_completion is invoked only after every ownership lookup of the call
\* has succeeded.  When a lookup fails the call raises
\* AuthorizationException, obtains no client, builds and sends no request
\* and persists nothing.
C26_LookupsBeforeProvider ==
    [][ \A t \in Tasks :
          \A wf \in {"analyze_version", "create_match", "generate_edit_suggestions"} :
            (Starts(t, wf) /\ LookupFails(wf, task'[t].args))
                => /\ task'[t].pc = "done"
                   /\ task'[t].outcome = Raise("AuthorizationException")
                   /\ task'[t].ai_client = 0
                   /\ task'[t].kwargs = EmptyDict
                   /\ task'[t].request = NoRequest
                   /\ cache' = cache
                   /\ instances' = instances
                   /\ posts' = posts
                   /\ store' = store ]_vars

\* a match was refused for a job description of another user although the
\* version was the caller's own
C26_Witness ==
    \E t \in Tasks :
        /\ task[t].wf = "create_match"
        /\ task[t].pc = "done"
        /\ VersionOwnedByUser(store, task[t].args.version_id, task[t].args.user_id) # {}
        /\ LookupFails("create_match", task[t].args)
        /\ task[t].outcome = Raise("AuthorizationException")
        /\ posts[t] = 0

\* the profile rows of a user
ProfilesOf(user_id) == get_by_user_id(store.user_profiles, user_id)

\* C27: a single profile row per user is kept.  After any interleaving of
\* get_profile, upsert_profile, get_preferences and update_preferences there
\* is at most one UserProfile row per user; a row, once created, stays the
\* row of its user; and a call that returns has read, created or updated
\* the one row of its user.
C27_OneProfilePerUser ==
    /\ [](\A user_id \in ProfileUsers : Cardinality(ProfilesOf(user_id)) <= 1)
    /\ [][ /\ \A p \in store.user_profiles :
                \E q \in store'.user_profiles : q.id = p.id /\ q.user_id = p.user_id
           /\ \A t \in Tasks :
                (req[t].pc # "done" /\ req'[t].pc = "done"
                   /\ req'[t].outcome.raised = None)
                    => \E p \in store'.user_profiles :
                          /\ store'.user_profiles \ {p}
                               = { q \in store.user_profiles :
                                     q.user_id # req'[t].args.user_id }
                          /\ req'[t].outcome.value = ProfileResponse(req'[t].op, p) ]_vars

\* two calls for the same user both found no profile; one created the row
\* and the other was refused by the unique constraint
C27_Witness ==
    /\ req[1].pc = "done" /\ req[1].op = "get_profile"
    /\ req[2].pc = "done" /\ req[2].op = "upsert_profile"
    /\ req[1].args.user_id = req[2].args.user_id
    /\ req[1].outcome.raised = "DatabaseException"
    /\ req[2].outcome.raised = None
    /\ Cardinality(ProfilesOf(req[1].args.user_id)) = 1

\* the stress the claim counts: 3 when stress_level is not supplied
StressCounted(payload) ==
    LET stress == Get(payload, "stress_level", << >>)
    IN  IF stress = << >> THEN 3 ELSE stress[1]

\* the level the claim assigns
RiskClaimed(payload) ==
    LET mood == payload["mood_score"]
        stress == StressCounted(payload)
    IN  IF mood <= 2 /\ stress >= 4 THEN "high"
        ELSE IF mood <= 3 /\ stress >= 3 THEN "medium"
        ELSE "low"

\* C28: create_checkin never fails on a schema-valid payload (mood_score in
\* 1..5; stress_level in 1..5, omitted or null) and stores the level "high"
\* iff mood_score <= 2 and stress >= 4, otherwise "medium" iff mood_score <= 3
\* and stress >= 3, otherwise "low", a stress_level that is not supplied
\* counting as 3.
C28_BurnoutRiskLevel ==
    \A t \in Tasks :
        (req[t].pc = "done" /\ req[t].op = "create_checkin")
            => /\ req[t].outcome.raised = None
               /\ req[t].outcome.value.burnout_risk_level
                    = RiskClaimed(req[t].args.payload)

\* the same for the payloads whose stress_level is not null
C28_ExceptNull ==
    \A t \in Tasks :
        (req[t].pc = "done" /\ req[t].op = "create_checkin"
           /\ Get(req[t].args.payload, "stress_level", << 3 >>) # << >>)
            => /\ req[t].outcome.raised = None
               /\ req[t].outcome.value.burnout_risk_level
                    = RiskClaimed(req[t].args.payload)

\* handler t, past the user_exists check of signup, inserts in this step
\* although another signup has stored the email in the meantime
LosesRace(t) ==
    /\ call[t].pc = "insert"
    /\ call'[t].pc = "done"
    /\ \E u \in users : u.email = call[t].args.email

\* C29: when two signups for the same unregistered email both pass the
\* user_exists check before either commits, one user is created and the
\* losing request is answered as a duplicate-email conflict: status 409 with
\* detail.error "email_exists", not an internal error.
C29_RaceLoserGetsConflict ==
    [][ \A t \in Tasks :
          LosesRace(t)
              => /\ users' = users
                 /\ Cardinality({ u \in users : u.email = call[t].args.email }) = 1
                 /\ call'[t].response.status_code = 409
                 /\ call'[t].response.body.detail.error = "email_exists" ]_vars

\* the part about the users table alone
C29_OneUserCreated ==
    [][ \A t \in Tasks :
          LosesRace(t)
              => /\ users' = users
                 /\ Cardinality({ u \in users : u.email = call[t].args.email }) = 1 ]_vars

\* the row of the application handler t works on, after the step
RowAfter(t) ==
    CHOOSE a \in store'.applications : a.id = req'[t].local.app.id

\* the status and column create_application is to store for a payload
CreatedAs(payload) ==
    LET status == IF "status" \in DOMAIN payload /\ payload["status"] # None
                  THEN payload["status"] ELSE PROSPECT
    IN  [status |-> status, kanban_column |-> status]

\* the status and column update_status is to store for a payload; an empty
\* kanban_column counts as none supplied
UpdatedAs(payload) ==
    [ status |-> payload.status,
      kanban_column |-> IF payload.kanban_column \in {None, ""}
                        THEN payload.status ELSE payload.kanban_column ]

\* C30: the Kanban column defaults to the status value.  create_application
\* with no status or a null status stores PROSPECT, and stores the status's
\* value as kanban_column; the commit of update_status leaves the application
\* with the payload's status and with payload.kanban_column when one is
\* supplied, otherwise with the new status's value.
C30_KanbanDefault ==
    [][ \A t \in Tasks :
          /\ Takes(t, "create_application")
               => /\ RowAfter(t).status = CreatedAs(req'[t].args.payload).status
                  /\ RowAfter(t).kanban_column
                       = CreatedAs(req'[t].args.payload).kanban_column
          /\ (req[t].pc = "commit" /\ req'[t].pc = "history")
               => /\ RowAfter(t).status = UpdatedAs(req[t].args.payload).status
                  /\ RowAfter(t).kanban_column
                       = UpdatedAs(req[t].args.payload).kanban_column ]_vars

\* the same for a commit that no other update_status commit came before
\* since the handler loaded the application
C30_WithoutRace ==
    [][ \A t \in Tasks :
          /\ Takes(t, "create_application")
               => /\ RowAfter(t).status = CreatedAs(req'[t].args.payload).status
                  /\ RowAfter(t).kanban_column
                       = CreatedAs(req'[t].args.payload).kanban_column
          /\ (req[t].pc = "commit" /\ req'[t].pc = "history"
                /\ \E a \in store.applications :
                     /\ a.id = req[t].local.loaded.id
                     /\ a.status = req[t].local.loaded.status
                     /\ a.kanban_column = req[t].local.loaded.kanban_column)
               => /\ RowAfter(t).status = UpdatedAs(req[t].args.payload).status
                  /\ RowAfter(t).kanban_column
                       = UpdatedAs(req[t].args.payload).kanban_column ]_vars

=============================================================================
